---- MODULE Spec2Model ----
(***************************************************************************)
(* Verification model of the RUGGUARD bot's scoring and trust pipeline:    *)
(*   bot/analyzer.py          AccountAnalyzer._calculate_risk_score        *)
(*   bot/trusted_accounts.py  TrustedAccountsManager                       *)
(*   bot/report_generator.py  ReportGenerator                              *)
(*                                                                         *)
(* Numbers with decimals are kept as scaled integers: a suspicious-content *)
(* ratio is held in hundredths (0..100), a risk score in tenths (0..1000). *)
(* Text is held as a sequence of one-code-point strings, so that len(),    *)
(* slicing and split() are computed on characters as Python computes them. *)
(***************************************************************************)
EXTENDS Integers, Sequences, FiniteSets, TLC

VARIABLES
    \* ---- AccountAnalyzer._calculate_risk_score ----
    analysis,        \* the analysis dict handed to _calculate_risk_score
    risk_score,      \* its return value, NoScore before the call
    risk_prev,       \* the previous call, for comparing two analyses
    \* ---- Config ----
    config,          \* the settings read from the environment
    \* ---- TrustedAccountsManager ----
    trusted_accounts,  \* self.trusted_accounts, a set of usernames
    last_update,     \* self.last_update, None or the time of the last refresh
    cache_file,      \* contents of trusted_accounts_cache.txt, None if absent
    now,             \* datetime.now(), in seconds
    remote_list,     \* the document served at TRUSTED_ACCOUNTS_URL
    fetched_text,    \* body of the last response a refresh installed
    update_result,   \* return value of the last update_trusted_list call
    update_call,     \* when that call was made and whether it fetched
    trust_call,      \* what the last check_trust_score call met
    trust_score,     \* its return value, NoTrust when no call is pending
    \* ---- ReportGenerator ----
    report_call,     \* the arguments of generate_report
    report,          \* its outcome, NoReport before the call
    \* ---- update_trusted_list beside check_trust_score, by statement ----
    writer,          \* the refreshing thread: its position and locals
    reader,          \* the classifying thread: its position and locals
    versions,        \* the sets self.trusted_accounts was bound to since
                     \* the pending classification call began
    \* ---- AccountAnalyzer.analyze_account ----
    user_data,       \* what the platform returns for the account
    extracted,       \* the return value of analyze_account
    \* ---- RugguardBot.process_trigger ----
    trigger,         \* its return value and what it posted and stored
    \* ---- the dashboard's /api/start and /api/stop ----
    requests,        \* the position of each request handler
    bot_processes,   \* the number of running `python main.py` processes
    \* ---- bot/utils.py ----
    retry,           \* one call of retry_on_failure: its loop and its result
    tracker,         \* a ProcessedTweetsTracker, the clock it reads, and
                     \* the order in which ids were marked
    \* ---- RugguardBot.run ----
    run,             \* the position of the main loop and its local triggers
    processed_tweets,  \* XMonitor.processed_tweets
    db_processed,    \* the tweet ids of the rows of processed_tweets
    handled          \* per tweet id: times returned by check_for_triggers,
                     \* times handed to process_trigger, replies posted

riskVars == <<analysis, risk_score, risk_prev>>

trustVars == <<config, trusted_accounts, last_update, cache_file, now,
               remote_list, fetched_text, update_result, update_call,
               trust_call, trust_score>>

reportVars == <<report_call, report>>

concVars == <<writer, reader, versions>>

\* the variables of the components specified after the report generator
extractVars == <<user_data, extracted>>

pipelineVars == <<trigger>>

dashVars == <<requests, bot_processes>>

utilVars == <<retry, tracker>>

runVars == <<run, processed_tweets, db_processed, handled>>

laterVars == <<dashVars, utilVars, runVars>>

extVars == <<concVars, extractVars, pipelineVars, laterVars>>

vars == <<analysis, risk_score, risk_prev,
          config, trusted_accounts, last_update, cache_file, now,
          remote_list, fetched_text, update_result, update_call,
          trust_call, trust_score,
          report_call, report,
          writer, reader, versions,
          user_data, extracted, trigger,
          requests, bot_processes, retry, tracker,
          run, processed_tweets, db_processed, handled>>

\* "no value yet" for a risk score and for an optional record
NoScore == [tenths |-> -1, is_float |-> FALSE]
None == <<>>
Some(x) == <<x>>

(***************************************************************************)
(* Bounds                                                                  *)
(***************************************************************************)
\* largest number of tweets in the analysed sample
MaxTweets == 4

(***************************************************************************)
(* Arithmetic helpers                                                      *)
(***************************************************************************)
Max2(a, b) == IF a >= b THEN a ELSE b
Min2(a, b) == IF a <= b THEN a ELSE b

\* round(c / n, 2) in hundredths.  c/n is a tie at two decimals only when
\* n is a multiple of 8, where the quotient is exact in binary and Python
\* rounds half to even.
Round2(c, n) ==
    LET q == (100 * c) \div n
        r == (100 * c) % n
    IN  IF 2 * r < n THEN q
        ELSE IF 2 * r > n THEN q + 1
        ELSE IF q % 2 = 0 THEN q ELSE q + 1

\* round(x, 1) of a value given in hundredths, result in tenths.  Off a tie
\* the nearest tenth is returned.  On a decimal tie (x.x5) the float that
\* Python rounds is not the decimal value: the accumulated binary error of
\* the preceding additions decides the direction, so both neighbours are
\* possible outcomes and `tie` selects one.
Round1(hundredths, tie) ==
    LET q == hundredths \div 10
        r == hundredths % 10
    IN  IF r < 5 THEN q
        ELSE IF r > 5 THEN q + 1
        ELSE q + tie

(***************************************************************************)
(* bot/analyzer.py                                                         *)
(***************************************************************************)
BioRiskLevels == {"low", "medium", "high"}

EngagementPatterns ==
    {"no_data", "high_engagement", "moderate_engagement", "low_engagement",
     "minimal_engagement", "error"}

PostingFrequencies ==
    {"no_data", "very_high", "high", "moderate", "low", "burst", "error"}

\* _analyze_content, reduced to the entries the scorer and the report read:
\* n tweets of which c contain a suspicious keyword.  The dict returned for
\* an empty sample (and the one returned from the except branch) has no
\* 'suspicious_content_ratio' entry.
_analyze_content(c, n) ==
    IF n = 0
    THEN [suspicious_content_count |-> 0]
    ELSE [suspicious_content_count |-> c,
          suspicious_content_ratio |-> Round2(c, n)]

\* a plausible slip: 'very_high' also counted as consistent activity
ActivityPatterns_very_high_consistent(frequency) ==
    [posting_frequency   |-> frequency,
     consistent_activity |-> (frequency \in {"moderate", "high", "very_high"})]

\* _analyze_activity_patterns, reduced to its frequency tag and the
\* consistent_activity flag derived from it.
_analyze_activity_patterns(frequency) ==
    [posting_frequency   |-> frequency,
     consistent_activity |-> (frequency \in {"moderate", "high"})]

\* a plausible slip: the bounds check dropped
ClampScore_unclamped(hundredths) == hundredths

\* max(0, min(100, risk_score)) on a value in hundredths
ClampScore(hundredths) == Max2(0, Min2(10000, hundredths))

\* the value returned from the except branch: 50.0
DefaultRiskScore == [tenths |-> 500, is_float |-> TRUE]

\* The factors of the weighted sum, in hundredths of a point.
AccountAgeFactor(a) == IF a.account_age.is_new THEN 2500 ELSE 0

FollowerRatioFactor(a) ==
    IF a.follower_following_ratio.is_suspicious THEN 2000 ELSE 0

BioFactor(a) ==
    IF a.bio_analysis.risk_level = "high" THEN 2000
    ELSE IF a.bio_analysis.risk_level = "medium" THEN 1000 ELSE 0

ContentFactor(a) == a.content_analysis.suspicious_content_ratio * 15

EngagementFactor(a) ==
    IF a.engagement_analysis.pattern = "minimal_engagement" THEN 1000
    ELSE IF a.engagement_analysis.pattern = "high_engagement" THEN -500
    ELSE 0

ActivityFactor(a) ==
    IF ~a.activity_patterns.consistent_activity THEN 1000 ELSE 0

\* a plausible slip: verification added to the risk instead of subtracted
VerificationFactor_added(a) == IF a.verification_status THEN 1500 ELSE 0

VerificationFactor(a) == IF a.verification_status THEN -1500 ELSE 0

\* the weighted sum before clamping, in hundredths; the caller guarantees
\* that every entry is present
RiskSum(a) ==
      AccountAgeFactor(a) + FollowerRatioFactor(a) + BioFactor(a)
    + ContentFactor(a) + EngagementFactor(a) + ActivityFactor(a)
    + VerificationFactor(a)

\* _calculate_risk_score: a missing entry raises KeyError inside the try and
\* the except branch returns 50.0.  max()/min() return their int argument
\* when the sum is <= 0 or >= 100, and round() of an int is an int.
_calculate_risk_score(a, tie) ==
    IF "suspicious_content_ratio" \notin DOMAIN a.content_analysis
    THEN DefaultRiskScore
    ELSE LET s == RiskSum(a)
         IN  [tenths   |-> Round1(ClampScore(s), tie),
              is_float |-> (s > 0 /\ s < 10000)]

\* the contents _analyze_content can return for a sample of <= MaxTweets
ContentAnalyses ==
    { _analyze_content(c, n) : <<c, n>> \in
        { p \in (0..MaxTweets) \X (0..MaxTweets) : p[1] <= p[2] } }

\* the analysis dicts handed to the scorer
Analyses ==
    { [account_age              |-> [is_new |-> n],
       follower_following_ratio |-> [is_suspicious |-> s],
       bio_analysis             |-> [risk_level |-> b],
       content_analysis         |-> c,
       engagement_analysis      |-> [pattern |-> e],
       activity_patterns        |-> _analyze_activity_patterns(f),
       verification_status      |-> v] :
      n \in BOOLEAN, s \in BOOLEAN, b \in BioRiskLevels,
      c \in ContentAnalyses, e \in EngagementPatterns,
      f \in PostingFrequencies, v \in BOOLEAN }

ContentHasRatio(c) == "suspicious_content_ratio" \in DOMAIN c
HasRatio(a) == ContentHasRatio(a.content_analysis)

(***************************************************************************)
(* Text: a str is a sequence of one-code-point strings                     *)
(***************************************************************************)
UpperLetters ==
    <<"A", "B", "C", "D", "E", "F", "G", "H", "I", "J", "K", "L", "M", "N",
      "O", "P", "Q", "R", "S", "T", "U", "V", "W", "X", "Y", "Z">>

LowerLetters ==
    <<"a", "b", "c", "d", "e", "f", "g", "h", "i", "j", "k", "l", "m", "n",
      "o", "p", "q", "r", "s", "t", "u", "v", "w", "x", "y", "z">>

\* str.lower() on one character
LowerChar(c) ==
    LET at == { i \in 1..Len(UpperLetters) : UpperLetters[i] = c }
    IN  IF at = {} THEN c ELSE LowerLetters[CHOOSE i \in at : TRUE]

Lower(s) == [i \in 1..Len(s) |-> LowerChar(s[i])]

IsSpace(c) == c \in {" ", "\n"}

\* str.strip(): leading and trailing whitespace removed
Strip(s) ==
    LET keep == { i \in 1..Len(s) : ~IsSpace(s[i]) }
    IN  IF keep = {} THEN <<>>
        ELSE LET first == CHOOSE i \in keep : \A j \in keep : i <= j
                 last  == CHOOSE i \in keep : \A j \in keep : i >= j
             IN  SubSeq(s, first, last)

\* str.lstrip(c): every leading occurrence of c removed
LStrip(s, c) ==
    LET keep == { i \in 1..Len(s) : s[i] # c }
    IN  IF keep = {} THEN <<>>
        ELSE SubSeq(s, CHOOSE i \in keep : \A j \in keep : i <= j, Len(s))

\* position of the first occurrence of c in s, 0 if there is none
Find(s, c) ==
    LET hits == { i \in 1..Len(s) : s[i] = c }
    IN  IF hits = {} THEN 0 ELSE CHOOSE i \in hits : \A j \in hits : i <= j

\* str.split(c): the pieces between the occurrences of c
RECURSIVE Split(_, _)
Split(s, c) ==
    LET i == Find(s, c)
    IN  IF i = 0 THEN <<s>>
        ELSE <<SubSeq(s, 1, i - 1)>> \o Split(SubSeq(s, i + 1, Len(s)), c)

\* c.join(parts)
RECURSIVE Join(_, _)
Join(parts, c) ==
    IF Len(parts) = 0 THEN <<>>
    ELSE IF Len(parts) = 1 THEN parts[1]
    ELSE parts[1] \o <<c>> \o Join(Tail(parts), c)

\* code-point order of the characters a trusted username of the model can
\* hold, as sorted() compares them
CharCode(c) ==
    CASE c = " " -> 32 [] c = "#" -> 35 [] c = "@" -> 64
      [] c = "A" -> 65 [] c = "B" -> 66 [] c = "a" -> 97 [] c = "b" -> 98
      [] OTHER -> 0

\* s < t in Python's string order
RECURSIVE StrLess(_, _)
StrLess(s, t) ==
    IF Len(t) = 0 THEN FALSE
    ELSE IF Len(s) = 0 THEN TRUE
    ELSE IF CharCode(s[1]) # CharCode(t[1])
         THEN CharCode(s[1]) < CharCode(t[1])
         ELSE StrLess(Tail(s), Tail(t))

\* sorted(set_of_str)
RECURSIVE Sorted(_)
Sorted(S) ==
    IF S = {} THEN <<>>
    ELSE LET m == CHOOSE x \in S : \A y \in S \ {x} : StrLess(x, y)
         IN  <<m>> \o Sorted(S \ {m})

\* the set of elements of a sequence
Range(q) == { q[i] : i \in 1..Len(q) }

(***************************************************************************)
(* config.py                                                               *)
(***************************************************************************)
\* default of TRUSTED_ACCOUNTS_UPDATE_INTERVAL, seconds
DefaultUpdateInterval == 3600

\* int(os.getenv('MIN_TRUSTED_FOLLOWERS', '3')) accepts every integer; the
\* model draws it from 0..MaxMinTrustedFollowers
MaxMinTrustedFollowers == 3

\* defaults of MIN_ACCOUNT_AGE_DAYS, and of SUSPICIOUS_FOLLOWER_RATIO
\* (10.0) in tenths
DefaultMinAccountAgeDays == 30
DefaultSuspiciousFollowerRatio == 100

Configs ==
    { [MIN_TRUSTED_FOLLOWERS |-> m,
       TRUSTED_ACCOUNTS_UPDATE_INTERVAL |-> DefaultUpdateInterval,
       MIN_ACCOUNT_AGE_DAYS |-> DefaultMinAccountAgeDays,
       SUSPICIOUS_FOLLOWER_RATIO |-> DefaultSuspiciousFollowerRatio] :
      m \in 0..MaxMinTrustedFollowers }

(***************************************************************************)
(* bot/analyzer.py: the features of an account                             *)
(***************************************************************************)
\* self.suspicious_keywords
suspicious_keywords ==
    << <<"p", "u", "m", "p">>,
       <<"m", "o", "o", "n">>,
       <<"l", "a", "m", "b", "o">>,
       <<"d", "i", "a", "m", "o", "n", "d", " ", "h", "a", "n", "d", "s">>,
       <<"h", "o", "d", "l">>,
       <<"a", "p", "e">>,
       <<"g", "u", "a", "r", "a", "n", "t", "e", "e", "d">>,
       <<"r", "e", "t", "u", "r", "n", "s">>,
       <<"i", "n", "v", "e", "s", "t", "m", "e", "n", "t", " ", "o", "p", "p", "o", "r", "t", "u", "n", "i", "t", "y">>,
       <<"e", "x", "c", "l", "u", "s", "i", "v", "e">>,
       <<"l", "i", "m", "i", "t", "e", "d", " ", "t", "i", "m", "e">>,
       <<"a", "c", "t", " ", "n", "o", "w">>,
       <<"d", "o", "n", "'", "t", " ", "m", "i", "s", "s", " ", "o", "u", "t">>,
       <<"f", "i", "n", "a", "n", "c", "i", "a", "l", " ", "a", "d", "v", "i", "c", "e">> >>

\* self.positive_keywords
positive_keywords ==
    << <<"r", "e", "s", "e", "a", "r", "c", "h">>,
       <<"a", "n", "a", "l", "y", "s", "i", "s">>,
       <<"e", "d", "u", "c", "a", "t", "i", "o", "n">>,
       <<"c", "o", "m", "m", "u", "n", "i", "t", "y">>,
       <<"d", "e", "v", "e", "l", "o", "p", "m", "e", "n", "t">>,
       <<"b", "u", "i", "l", "d", "i", "n", "g">>,
       <<"l", "e", "a", "r", "n", "i", "n", "g">>,
       <<"d", "i", "s", "c", "u", "s", "s", "i", "n", "g">>,
       <<"s", "h", "a", "r", "i", "n", "g">>,
       <<"h", "e", "l", "p", "i", "n", "g">> >>

\* kw in s
Contains(s, kw) ==
    \E i \in 1..(Len(s) - Len(kw) + 1) : SubSeq(s, i, i + Len(kw) - 1) = kw

\* [kw for kw in keywords if kw in text]
FoundKeywords(keywords, text) ==
    SelectSeq(keywords, LAMBDA kw : Contains(text, kw))

\* The sub-computations of analyze_account each run in a try of their own;
\* `failed` says that the try raised and the except branch returned.

\* _calculate_account_age; age_days is (now - created_at).days
_calculate_account_age(age_days, cfg, failed) ==
    IF failed
    THEN [days |-> 0, is_new |-> TRUE]
    ELSE [days |-> age_days, is_new |-> age_days < cfg.MIN_ACCOUNT_AGE_DAYS]

\* a plausible slip: the threshold test made inclusive
FollowerRatio_inclusive(followers, following, cfg, failed) ==
    IF failed
    THEN [ratio |-> 0, followers |-> 0, following |-> 0,
          is_suspicious |-> TRUE]
    ELSE [ratio |-> IF following = 0 THEN 100 * followers
                    ELSE Round2(followers, following),
          followers |-> followers,
          following |-> following,
          is_suspicious |->
              \/ IF following = 0
                 THEN 10 * followers >= cfg.SUSPICIOUS_FOLLOWER_RATIO
                 ELSE 10 * followers >=
                        cfg.SUSPICIOUS_FOLLOWER_RATIO * following
              \/ (followers > 1000 /\ following < 10)]

\* _calculate_follower_ratio.  'ratio' is round(ratio, 2), in hundredths;
\* the threshold is in tenths, and followers / following > t is decided on
\* the integers, where it is exact
_calculate_follower_ratio(followers, following, cfg, failed) ==
    IF failed
    THEN [ratio |-> 0, followers |-> 0, following |-> 0,
          is_suspicious |-> TRUE]
    ELSE [ratio |-> IF following = 0 THEN 100 * followers
                    ELSE Round2(followers, following),
          followers |-> followers,
          following |-> following,
          is_suspicious |->
              \/ IF following = 0
                 THEN 10 * followers > cfg.SUSPICIOUS_FOLLOWER_RATIO
                 ELSE 10 * followers >
                        cfg.SUSPICIOUS_FOLLOWER_RATIO * following
              \/ (followers > 1000 /\ following < 10)]

\* a plausible slip: two suspicious keywords already rated 'high'
AnalyzeBio_two_is_high(bio, failed) ==
    IF failed
    THEN [has_bio |-> FALSE, risk_level |-> "high",
          suspicious_keywords |-> <<>>, positive_keywords |-> <<>>]
    ELSE IF bio = <<>>
    THEN [has_bio |-> FALSE, risk_level |-> "medium",
          suspicious_keywords |-> <<>>, positive_keywords |-> <<>>]
    ELSE LET found_suspicious == FoundKeywords(suspicious_keywords, Lower(bio))
             found_positive == FoundKeywords(positive_keywords, Lower(bio))
         IN  [has_bio |-> TRUE,
              risk_level |-> IF Len(found_suspicious) >= 2 THEN "high"
                             ELSE IF Len(found_suspicious) > 0 THEN "medium"
                             ELSE "low",
              suspicious_keywords |-> found_suspicious,
              positive_keywords |-> found_positive]

\* _analyze_bio
_analyze_bio(bio, failed) ==
    IF failed
    THEN [has_bio |-> FALSE, risk_level |-> "high",
          suspicious_keywords |-> <<>>, positive_keywords |-> <<>>]
    ELSE IF bio = <<>>
    THEN [has_bio |-> FALSE, risk_level |-> "medium",
          suspicious_keywords |-> <<>>, positive_keywords |-> <<>>]
    ELSE LET found_suspicious == FoundKeywords(suspicious_keywords, Lower(bio))
             found_positive == FoundKeywords(positive_keywords, Lower(bio))
         IN  [has_bio |-> TRUE,
              risk_level |-> IF Len(found_suspicious) > 2 THEN "high"
                             ELSE IF Len(found_suspicious) > 0 THEN "medium"
                             ELSE "low",
              suspicious_keywords |-> found_suspicious,
              positive_keywords |-> found_positive]

\* The sample of tweets is held as a summary: `count` tweets with the same
\* like, retweet and reply counts each, of which suspicious_count contain a
\* suspicious keyword, the oldest posted days_span days ago and, if
\* `recent`, at least one within the last 7 days.
NoTweets ==
    [count |-> 0, like_count |-> 0, retweet_count |-> 0, reply_count |-> 0,
     suspicious_count |-> 0, days_span |-> 0, recent |-> FALSE]

_classify_engagement_pattern(likes, retweets, replies) ==
    IF likes > 100 /\ retweets > 20 THEN "high_engagement"
    ELSE IF likes > 10 /\ retweets > 2 THEN "moderate_engagement"
    ELSE IF likes > 1 THEN "low_engagement"
    ELSE "minimal_engagement"

\* _analyze_engagement; the mean of equal counts is the count
_analyze_engagement(tweets, failed) ==
    IF failed THEN [avg_likes |-> 0, pattern |-> "error"]
    ELSE IF tweets.count = 0 THEN [avg_likes |-> 0, pattern |-> "no_data"]
    ELSE [avg_likes |-> tweets.like_count,
          pattern |-> _classify_engagement_pattern(tweets.like_count,
                                                   tweets.retweet_count,
                                                   tweets.reply_count)]

\* _analyze_content on the sample; the except branch returns the same
\* entries as the branch for an empty sample
AnalyzeContent(tweets, failed) ==
    IF failed THEN _analyze_content(0, 0)
    ELSE _analyze_content(tweets.suspicious_count, tweets.count)

\* "Determine posting frequency"
PostingFrequency(tweets) ==
    IF tweets.count >= 20
    THEN IF tweets.days_span > 0
         THEN IF tweets.count > 5 * tweets.days_span THEN "very_high"
              ELSE IF tweets.count > 2 * tweets.days_span THEN "high"
              ELSE IF 2 * tweets.count > tweets.days_span THEN "moderate"
              ELSE "low"
         ELSE "burst"
    ELSE "low"

\* _analyze_activity_patterns on the sample, with recent_activity
AnalyzeActivity(tweets, failed) ==
    IF failed
    THEN _analyze_activity_patterns("error") @@ [recent_activity |-> FALSE]
    ELSE IF tweets.count = 0
    THEN _analyze_activity_patterns("no_data") @@ [recent_activity |-> FALSE]
    ELSE _analyze_activity_patterns(PostingFrequency(tweets))
           @@ [recent_activity |-> tweets.recent]

Features == {"account_age", "follower_following_ratio", "bio_analysis",
             "engagement_analysis", "content_analysis", "activity_patterns"}

\* analyze_account: None when the profile cannot be fetched; otherwise the
\* analysis dict with its risk score.  get_user_tweets returns [] when the
\* tweets cannot be fetched.
analyze_account(user_info, tweets, cfg, failing, tie) ==
    IF user_info = None THEN None
    ELSE LET u == user_info[1]
             features ==
               [username |-> u.username,
                account_age |->
                    _calculate_account_age(u.age_days, cfg,
                                           "account_age" \in failing),
                follower_following_ratio |->
                    _calculate_follower_ratio(
                        u.followers_count, u.following_count, cfg,
                        "follower_following_ratio" \in failing),
                bio_analysis |->
                    _analyze_bio(u.description, "bio_analysis" \in failing),
                engagement_analysis |->
                    _analyze_engagement(tweets,
                                        "engagement_analysis" \in failing),
                content_analysis |->
                    AnalyzeContent(tweets, "content_analysis" \in failing),
                activity_patterns |->
                    AnalyzeActivity(tweets, "activity_patterns" \in failing),
                verification_status |-> u.verified,
                raw_metrics |-> [followers_count |-> u.followers_count,
                                 following_count |-> u.following_count]]
         IN  Some(features @@
                  [risk_score |-> _calculate_risk_score(features, tie)])

(***************************************************************************)
(* bot/trusted_accounts.py                                                 *)
(***************************************************************************)
\* timedelta.seconds: the seconds component of a duration, days left out
SecondsPerDay == 86400
TimedeltaSeconds(duration) == duration % SecondsPerDay

\* a plausible slip: the '@' removed but the case kept
ParseLine_case_kept(line) == LStrip(Strip(line), "@")

\* the username a line of the list stands for:  line.strip(), then
\* line.lstrip('@').lower()
ParseLine(line) == Lower(LStrip(Strip(line), "@"))

\* the set built by the parsing loop from the stripped response text
ParseTrustedList(content) ==
    { ParseLine(line) : line \in
        { l \in Range(Split(content, "\n")) :
            /\ Strip(l) # <<>>
            /\ Strip(l)[1] # "#"
            /\ ParseLine(l) # <<>> } }

\* what _cache_accounts writes
CacheContents(accounts) == Join(Sorted(accounts), "\n")

\* _load_cached_accounts: the set read back from the cache file; a missing
\* file or an empty one leaves the set as constructed
_load_cached_accounts(file) ==
    IF file = None THEN {}
    ELSE IF Strip(file[1]) = <<>> THEN {}
    ELSE Range(Split(Strip(file[1]), "\n"))

\* _get_trusted_followers: the loop over the first 20 trusted accounts
\* looks each one up and appends nothing; both exits return an empty list
_get_trusted_followers(accounts) == <<>>

NoExplanation == [text |-> "", username |-> <<>>, count |-> 0, minimum |-> 0]

\* "no call pending"
NoTrust ==
    [is_trusted |-> FALSE, trust_level |-> "", trusted_followers |-> <<>>,
     trusted_followers_count |-> -1, vouched_by_trusted |-> FALSE,
     explanation |-> NoExplanation]

\* a plausible slip: the error default reports the account as trusted
DefaultTrustScore_trusted ==
    [is_trusted |-> TRUE, trust_level |-> "unknown",
     trusted_followers |-> <<>>, trusted_followers_count |-> 0,
     vouched_by_trusted |-> FALSE,
     explanation |-> [NoExplanation EXCEPT
                        !.text = "Unable to verify trust status"]]

_default_trust_score ==
    [is_trusted |-> FALSE, trust_level |-> "unknown",
     trusted_followers |-> <<>>, trusted_followers_count |-> 0,
     vouched_by_trusted |-> FALSE,
     explanation |-> [NoExplanation EXCEPT
                        !.text = "Unable to verify trust status"]]

\* the dict returned for a username found in the trusted set
DirectlyTrusted(username) ==
    [is_trusted |-> TRUE, trust_level |-> "directly_trusted",
     trusted_followers |-> <<>>, trusted_followers_count |-> 0,
     vouched_by_trusted |-> TRUE,
     explanation |-> [NoExplanation EXCEPT
                        !.text = "@{username} is directly on the trusted accounts list",
                        !.username = username]]

\* "Determine trust level": the decision from the list of trusted followers
ClassifyFollowers(trusted_followers, minimum) ==
    LET trusted_count == Len(trusted_followers)
        level == IF trusted_count >= minimum THEN "vouched_by_trusted"
                 ELSE IF trusted_count > 0 THEN "partially_vouched"
                 ELSE "not_vouched"
        trusted == trusted_count >= minimum
        text == IF trusted_count >= minimum
                THEN IF trusted_count > 3
                     THEN "Followed by {count} trusted accounts: {names} and {count - 3} others"
                     ELSE "Followed by {count} trusted accounts: {names}"
                ELSE IF trusted_count > 0
                THEN "Followed by {count} trusted account(s) (minimum {minimum} required)"
                ELSE "Not followed by any trusted accounts"
    IN  [is_trusted |-> trusted, trust_level |-> level,
         trusted_followers |-> trusted_followers,
         trusted_followers_count |-> trusted_count,
         vouched_by_trusted |-> trusted,
         explanation |-> [text |-> text, username |-> <<>>,
                          count |-> trusted_count, minimum |-> minimum]]

\* check_trust_score.  monitor_ok: XMonitor(config) was constructed without
\* raising; user_info: None or Some(username) as get_user_info returns it.
\* Every failure inside the try ends in _default_trust_score().
check_trust_score(monitor_ok, user_info, accounts, cfg) ==
    IF ~monitor_ok THEN _default_trust_score
    ELSE IF user_info = None THEN _default_trust_score
    ELSE LET username == Lower(user_info[1])
         IN  IF username \in accounts
             THEN DirectlyTrusted(username)
             ELSE ClassifyFollowers(_get_trusted_followers(accounts),
                                    cfg.MIN_TRUSTED_FOLLOWERS)

(***************************************************************************)
(* bot/report_generator.py: the fixed texts, one code point per element;   *)
(* a code point outside ASCII is written U+hex                             *)
(***************************************************************************)
\* "<U+1F50D> RUGGUARD TRUST REPORT for @"
TextHeader ==
    <<"U+1F50D", " ", "R", "U", "G", "G", "U", "A", "R", "D", " ", "T",
      "R", "U", "S", "T", " ", "R", "E", "P", "O", "R", "T", " ", "f", "o",
      "r", " ", "@">>

\* "<U+26A0><U+FE0F> This is an automated analysis. DYOR!"
TextFooterNotice ==
    <<"U+26A0", "U+FE0F", " ", "T", "h", "i", "s", " ", "i", "s", " ", "a",
      "n", " ", "a", "u", "t", "o", "m", "a", "t", "e", "d", " ", "a", "n",
      "a", "l", "y", "s", "i", "s", ".", " ", "D", "Y", "O", "R", "!">>

\* "#RUGGUARD #TrustScore"
TextFooterTags ==
    <<"#", "R", "U", "G", "G", "U", "A", "R", "D", " ", "#", "T", "r", "u",
      "s", "t", "S", "c", "o", "r", "e">>

\* "<U+26A0><U+FE0F> DYOR! #RUGGUARD"
TextShortFooter ==
    <<"U+26A0", "U+FE0F", " ", "D", "Y", "O", "R", "!", " ", "#", "R", "U",
      "G", "G", "U", "A", "R", "D">>

\* "<U+1F50D> RUGGUARD: Error analyzing @"
TextErrorPrefix ==
    <<"U+1F50D", " ", "R", "U", "G", "G", "U", "A", "R", "D", ":", " ",
      "E", "r", "r", "o", "r", " ", "a", "n", "a", "l", "y", "z", "i", "n",
      "g", " ", "@">>

\* ". Please try again later. #RUGGUARD"
TextErrorSuffix ==
    <<".", " ", "P", "l", "e", "a", "s", "e", " ", "t", "r", "y", " ", "a",
      "g", "a", "i", "n", " ", "l", "a", "t", "e", "r", ".", " ", "#", "R",
      "U", "G", "G", "U", "A", "R", "D">>

\* "<U+1F50D> RUGGUARD: Analysis complete. Check logs for details. #RUGGUARD"
TextTruncateFallback ==
    <<"U+1F50D", " ", "R", "U", "G", "G", "U", "A", "R", "D", ":", " ",
      "A", "n", "a", "l", "y", "s", "i", "s", " ", "c", "o", "m", "p", "l",
      "e", "t", "e", ".", " ", "C", "h", "e", "c", "k", " ", "l", "o", "g",
      "s", " ", "f", "o", "r", " ", "d", "e", "t", "a", "i", "l", "s", ".",
      " ", "#", "R", "U", "G", "G", "U", "A", "R", "D">>

\* "<U+1F50D> @"
TextCompactPrefix ==
    <<"U+1F50D", " ", "@">>

\* "<U+2705> VERIFIED TRUSTED ACCOUNT\n<U+2022> Account is on Project
\* RUGGUARD's trusted list\n<U+2022> Automatically vouched by the system"
TextDirectlyTrusted ==
    <<"U+2705", " ", "V", "E", "R", "I", "F", "I", "E", "D", " ", "T", "R",
      "U", "S", "T", "E", "D", " ", "A", "C", "C", "O", "U", "N", "T",
      "\n", "U+2022", " ", "A", "c", "c", "o", "u", "n", "t", " ", "i",
      "s", " ", "o", "n", " ", "P", "r", "o", "j", "e", "c", "t", " ", "R",
      "U", "G", "G", "U", "A", "R", "D", "'", "s", " ", "t", "r", "u", "s",
      "t", "e", "d", " ", "l", "i", "s", "t", "\n", "U+2022", " ", "A",
      "u", "t", "o", "m", "a", "t", "i", "c", "a", "l", "l", "y", " ", "v",
      "o", "u", "c", "h", "e", "d", " ", "b", "y", " ", "t", "h", "e", " ",
      "s", "y", "s", "t", "e", "m">>

\* "<U+1F91D> NETWORK BACKED ACCOUNT\n<U+2022> Followed by "
TextNetworkBackedHead ==
    <<"U+1F91D", " ", "N", "E", "T", "W", "O", "R", "K", " ", "B", "A",
      "C", "K", "E", "D", " ", "A", "C", "C", "O", "U", "N", "T", "\n",
      "U+2022", " ", "F", "o", "l", "l", "o", "w", "e", "d", " ", "b", "y",
      " ">>

\* " trusted accounts from our list\n<U+2022> Meets minimum threshold of 3
\* trusted followers"
TextNetworkBackedTail ==
    <<" ", "t", "r", "u", "s", "t", "e", "d", " ", "a", "c", "c", "o", "u",
      "n", "t", "s", " ", "f", "r", "o", "m", " ", "o", "u", "r", " ", "l",
      "i", "s", "t", "\n", "U+2022", " ", "M", "e", "e", "t", "s", " ",
      "m", "i", "n", "i", "m", "u", "m", " ", "t", "h", "r", "e", "s", "h",
      "o", "l", "d", " ", "o", "f", " ", "3", " ", "t", "r", "u", "s", "t",
      "e", "d", " ", "f", "o", "l", "l", "o", "w", "e", "r", "s">>

\* "<U+26A0><U+FE0F> PARTIALLY BACKED\n<U+2022> Followed by "
TextPartiallyHead ==
    <<"U+26A0", "U+FE0F", " ", "P", "A", "R", "T", "I", "A", "L", "L", "Y",
      " ", "B", "A", "C", "K", "E", "D", "\n", "U+2022", " ", "F", "o",
      "l", "l", "o", "w", "e", "d", " ", "b", "y", " ">>

\* " trusted account(s)\n<U+2022> Needs 3+ for full verification"
TextPartiallyTail ==
    <<" ", "t", "r", "u", "s", "t", "e", "d", " ", "a", "c", "c", "o", "u",
      "n", "t", "(", "s", ")", "\n", "U+2022", " ", "N", "e", "e", "d",
      "s", " ", "3", "+", " ", "f", "o", "r", " ", "f", "u", "l", "l", " ",
      "v", "e", "r", "i", "f", "i", "c", "a", "t", "i", "o", "n">>

\* "<U+274C> UNVERIFIED ACCOUNT\n<U+2022> Not on trusted list\n<U+2022> No
\* trusted accounts following\n<U+2022> Requires manual verification"
TextUnverified ==
    <<"U+274C", " ", "U", "N", "V", "E", "R", "I", "F", "I", "E", "D", " ",
      "A", "C", "C", "O", "U", "N", "T", "\n", "U+2022", " ", "N", "o",
      "t", " ", "o", "n", " ", "t", "r", "u", "s", "t", "e", "d", " ", "l",
      "i", "s", "t", "\n", "U+2022", " ", "N", "o", " ", "t", "r", "u",
      "s", "t", "e", "d", " ", "a", "c", "c", "o", "u", "n", "t", "s", " ",
      "f", "o", "l", "l", "o", "w", "i", "n", "g", "\n", "U+2022", " ",
      "R", "e", "q", "u", "i", "r", "e", "s", " ", "m", "a", "n", "u", "a",
      "l", " ", "v", "e", "r", "i", "f", "i", "c", "a", "t", "i", "o", "n">>

\* "<U+2753> UNKNOWN: Unable to verify trust status"
TextTrustUnknown ==
    <<"U+2753", " ", "U", "N", "K", "N", "O", "W", "N", ":", " ", "U", "n",
      "a", "b", "l", "e", " ", "t", "o", " ", "v", "e", "r", "i", "f", "y",
      " ", "t", "r", "u", "s", "t", " ", "s", "t", "a", "t", "u", "s">>

\* "<U+1F7E2> LOW RISK"
TextLowRisk ==
    <<"U+1F7E2", " ", "L", "O", "W", " ", "R", "I", "S", "K">>

\* "<U+1F7E1> MODERATE RISK"
TextModerateRisk ==
    <<"U+1F7E1", " ", "M", "O", "D", "E", "R", "A", "T", "E", " ", "R",
      "I", "S", "K">>

\* "<U+1F7E0> HIGH RISK"
TextHighRisk ==
    <<"U+1F7E0", " ", "H", "I", "G", "H", " ", "R", "I", "S", "K">>

\* "<U+1F534> VERY HIGH RISK"
TextVeryHighRisk ==
    <<"U+1F534", " ", "V", "E", "R", "Y", " ", "H", "I", "G", "H", " ",
      "R", "I", "S", "K">>

\* " (Score: "
TextScoreOpen ==
    <<" ", "(", "S", "c", "o", "r", "e", ":", " ">>

\* "/100)"
TextScoreClose ==
    <<"/", "1", "0", "0", ")">>

\* "<U+1F4C5> "
TextAge ==
    <<"U+1F4C5", " ">>

\* "y old"
TextYearsOld ==
    <<"y", " ", "o", "l", "d">>

\* "m old"
TextMonthsOld ==
    <<"m", " ", "o", "l", "d">>

\* "d old"
TextDaysOld ==
    <<"d", " ", "o", "l", "d">>

\* "<U+1F465> "
TextFollowersIcon ==
    <<"U+1F465", " ">>

\* "M followers"
TextMFollowers ==
    <<"M", " ", "f", "o", "l", "l", "o", "w", "e", "r", "s">>

\* "K followers"
TextKFollowers ==
    <<"K", " ", "f", "o", "l", "l", "o", "w", "e", "r", "s">>

\* " followers"
TextFollowers ==
    <<" ", "f", "o", "l", "l", "o", "w", "e", "r", "s">>

\* "<U+1F4CA> High engagement"
TextHighEngagement ==
    <<"U+1F4CA", " ", "H", "i", "g", "h", " ", "e", "n", "g", "a", "g",
      "e", "m", "e", "n", "t">>

\* "<U+1F4CA> Moderate engagement"
TextModerateEngagement ==
    <<"U+1F4CA", " ", "M", "o", "d", "e", "r", "a", "t", "e", " ", "e",
      "n", "g", "a", "g", "e", "m", "e", "n", "t">>

\* "<U+1F4CA> Low engagement"
TextLowEngagement ==
    <<"U+1F4CA", " ", "L", "o", "w", " ", "e", "n", "g", "a", "g", "e",
      "m", "e", "n", "t">>

\* " | "
TextBar ==
    <<" ", "|", " ">>

\* "<U+26A0><U+FE0F> Suspicious bio content"
TextSuspiciousBio ==
    <<"U+26A0", "U+FE0F", " ", "S", "u", "s", "p", "i", "c", "i", "o", "u",
      "s", " ", "b", "i", "o", " ", "c", "o", "n", "t", "e", "n", "t">>

\* "<U+2705> Clean bio content"
TextCleanBio ==
    <<"U+2705", " ", "C", "l", "e", "a", "n", " ", "b", "i", "o", " ", "c",
      "o", "n", "t", "e", "n", "t">>

\* "<U+26A0><U+FE0F> No bio"
TextNoBio ==
    <<"U+26A0", "U+FE0F", " ", "N", "o", " ", "b", "i", "o">>

\* "<U+2705> Recently active"
TextRecentlyActive ==
    <<"U+2705", " ", "R", "e", "c", "e", "n", "t", "l", "y", " ", "a", "c",
      "t", "i", "v", "e">>

\* "<U+26A0><U+FE0F> Inactive recently"
TextInactive ==
    <<"U+26A0", "U+FE0F", " ", "I", "n", "a", "c", "t", "i", "v", "e", " ",
      "r", "e", "c", "e", "n", "t", "l", "y">>

\* "<U+1F6A8> High suspicious content"
TextHighSuspicious ==
    <<"U+1F6A8", " ", "H", "i", "g", "h", " ", "s", "u", "s", "p", "i",
      "c", "i", "o", "u", "s", " ", "c", "o", "n", "t", "e", "n", "t">>

\* "<U+26A0><U+FE0F> Some suspicious content"
TextSomeSuspicious ==
    <<"U+26A0", "U+FE0F", " ", "S", "o", "m", "e", " ", "s", "u", "s", "p",
      "i", "c", "i", "o", "u", "s", " ", "c", "o", "n", "t", "e", "n", "t">>

\* "<U+2705> Clean content"
TextCleanContent ==
    <<"U+2705", " ", "C", "l", "e", "a", "n", " ", "c", "o", "n", "t", "e",
      "n", "t">>

\* "<U+2705> Verified account"
TextVerified ==
    <<"U+2705", " ", "V", "e", "r", "i", "f", "i", "e", "d", " ", "a", "c",
      "c", "o", "u", "n", "t">>

\* "Analysis complete"
TextAnalysisComplete ==
    <<"A", "n", "a", "l", "y", "s", "i", "s", " ", "c", "o", "m", "p", "l",
      "e", "t", "e">>

(***************************************************************************)
(* bot/report_generator.py: the composer                                   *)
(***************************************************************************)
\* a plausible slip: a limit above Twitter's
ReportLimit_raised == 280 + 20

\* Twitter's character limit, as generate_report and _truncate_report test it
ReportLimit == 280

\* str(n) for an int n >= 0
DigitChar(d) ==
    CASE d = 0 -> "0" [] d = 1 -> "1" [] d = 2 -> "2" [] d = 3 -> "3"
      [] d = 4 -> "4" [] d = 5 -> "5" [] d = 6 -> "6" [] d = 7 -> "7"
      [] d = 8 -> "8" [] d = 9 -> "9"

RECURSIVE Str(_)
Str(n) == IF n < 10 THEN <<DigitChar(n)>>
          ELSE Str(n \div 10) \o <<DigitChar(n % 10)>>

\* str() of a risk score: a float prints with its decimal, an int without
FormatScore(score) ==
    IF score.is_float
    THEN Str(score.tenths \div 10) \o <<".">> \o Str(score.tenths % 10)
    ELSE Str(score.tenths \div 10)

\* a plausible slip: the slice left out
Prefix_uncut(s, n) == s

\* the first n characters: s[:n]
Prefix(s, n) == SubSeq(s, 1, Min2(n, Len(s)))

\* a handle of n word characters
Repeat(c, n) == [i \in 1..n |-> c]

\* s.split()[0]: the first whitespace-delimited word; None when s holds
\* no word, where the index raises IndexError
FirstWord(s) ==
    LET word == { i \in 1..Len(s) : ~IsSpace(s[i]) }
    IN  IF word = {} THEN None
        ELSE LET first == CHOOSE i \in word : \A j \in word : i <= j
                 stops == { i \in first..Len(s) : IsSpace(s[i]) }
                 last  == IF stops = {} THEN Len(s)
                          ELSE (CHOOSE i \in stops : \A j \in stops : i <= j) - 1
             IN  Some(SubSeq(s, first, last))

\* _generate_trust_status.  ts is None when the trust score is not a dict:
\* .get raises and the except branch returns the UNKNOWN text.  A trusted
\* decision whose level is neither 'directly_trusted' nor 'network_backed'
\* falls off the end of the function, which returns None.
_generate_trust_status(ts) ==
    IF ts = None THEN Some(TextTrustUnknown)
    ELSE IF ts[1].is_trusted
         THEN IF ts[1].trust_level = "directly_trusted"
              THEN Some(TextDirectlyTrusted)
              ELSE IF ts[1].trust_level = "network_backed"
              THEN Some(TextNetworkBackedHead
                          \o Str(Len(ts[1].trusted_followers))
                          \o TextNetworkBackedTail)
              ELSE None
         ELSE IF ts[1].trusted_followers_count > 0
              THEN Some(TextPartiallyHead
                          \o Str(ts[1].trusted_followers_count)
                          \o TextPartiallyTail)
              ELSE Some(TextUnverified)

\* _generate_risk_assessment; thresholds 20, 40, 70 on a score in tenths
_generate_risk_assessment(a) ==
    LET label == IF a.risk_score.tenths < 200 THEN TextLowRisk
                 ELSE IF a.risk_score.tenths < 400 THEN TextModerateRisk
                 ELSE IF a.risk_score.tenths < 700 THEN TextHighRisk
                 ELSE TextVeryHighRisk
    IN  label \o TextScoreOpen \o FormatScore(a.risk_score) \o TextScoreClose

\* _generate_key_metrics
_generate_key_metrics(a) ==
    LET age_days == a.account_age.days
        followers == a.raw_metrics.followers_count
        avg_likes == a.engagement_analysis.avg_likes
        age == IF age_days > 365
               THEN TextAge \o Str(age_days \div 365) \o TextYearsOld
               ELSE IF age_days > 30
               THEN TextAge \o Str(age_days \div 30) \o TextMonthsOld
               ELSE TextAge \o Str(age_days) \o TextDaysOld
        fol == IF followers > 1000000
               THEN TextFollowersIcon \o Str(followers \div 1000000)
                      \o TextMFollowers
               ELSE IF followers > 1000
               THEN TextFollowersIcon \o Str(followers \div 1000)
                      \o TextKFollowers
               ELSE TextFollowersIcon \o Str(followers) \o TextFollowers
        eng == IF avg_likes > 100 THEN TextHighEngagement
               ELSE IF avg_likes > 10 THEN TextModerateEngagement
               ELSE TextLowEngagement
    IN  age \o TextBar \o fol \o TextBar \o eng

\* " | ".join(details)
RECURSIVE JoinText(_, _)
JoinText(parts, sep) ==
    IF Len(parts) = 0 THEN <<>>
    ELSE IF Len(parts) = 1 THEN parts[1]
    ELSE parts[1] \o sep \o JoinText(Tail(parts), sep)

\* _generate_detailed_analysis; content.get('suspicious_content_ratio', 0)
\* reads 0 when the entry is missing
_generate_detailed_analysis(a) ==
    LET bio == IF a.bio_analysis.has_bio
               THEN IF a.bio_analysis.risk_level = "high"
                    THEN <<TextSuspiciousBio>>
                    ELSE IF a.bio_analysis.risk_level = "low"
                    THEN <<TextCleanBio>>
                    ELSE <<>>
               ELSE <<TextNoBio>>
        activity == IF a.activity_patterns.recent_activity
                    THEN <<TextRecentlyActive>> ELSE <<TextInactive>>
        suspicious_ratio == IF ContentHasRatio(a.content_analysis)
                            THEN a.content_analysis.suspicious_content_ratio
                            ELSE 0
        content == IF suspicious_ratio > 30 THEN <<TextHighSuspicious>>
                   ELSE IF suspicious_ratio > 10 THEN <<TextSomeSuspicious>>
                   ELSE <<TextCleanContent>>
        verified == IF a.verification_status THEN <<TextVerified>> ELSE <<>>
        details == bio \o activity \o content \o verified
    IN  IF details = <<>> THEN TextAnalysisComplete
        ELSE JoinText(details, TextBar)

\* _truncate_report(report_parts); the parts are numbered from 1 here, so
\* report_parts[0], [2], [3], [4] of the code are parts 1, 3, 4, 5.
_truncate_report(report_parts) ==
    LET truncated == Join(<<report_parts[1], report_parts[3], report_parts[4],
                            report_parts[5], TextShortFooter>>, "\n")
    IN  IF Len(truncated) > ReportLimit
        THEN LET header == report_parts[1]
                 username == IF Find(header, "@") # 0
                             THEN FirstWord(Split(header, "@")[2])
                             ELSE Some(<<"u", "s", "e", "r">>)
                 trust_line == IF Find(report_parts[3], ":") # 0
                               THEN Split(report_parts[3], ":")[1]
                               ELSE report_parts[3]
                 risk_line == IF Find(report_parts[4], "(") # 0
                              THEN Strip(Split(report_parts[4], "(")[1])
                              ELSE report_parts[4]
             IN  IF username = None
                 THEN [path |-> "truncate_fallback",
                       text |-> TextTruncateFallback]
                 ELSE [path |-> "compact",
                       text |-> Prefix(TextCompactPrefix \o username[1]
                                         \o <<"\n">> \o trust_line
                                         \o <<"\n">> \o risk_line
                                         \o <<"\n">> \o TextShortFooter,
                                       ReportLimit)]
        ELSE [path |-> "essential", text |-> Prefix(truncated, ReportLimit)]

\* generate_report(analysis, trust_score, user_id).  an is None when the
\* analysis is not a mapping: analysis.get raises before `username` is
\* bound, and the except branch, which formats `username`, raises
\* UnboundLocalError out of the function.
generate_report(an, ts) ==
    IF an = None
    THEN [outcome |-> "raised", path |-> "raised", text |-> <<>>]
    ELSE LET a == an[1]
             username == a.username
             trust_status == _generate_trust_status(ts)
         IN  IF trust_status = None
             THEN \* "\n".join(report_parts) raises TypeError on the None part
                  [outcome |-> "returned", path |-> "error",
                   text |-> TextErrorPrefix \o username \o TextErrorSuffix]
             ELSE LET report_parts ==
                          <<TextHeader \o username,
                            <<>>,
                            trust_status[1],
                            _generate_risk_assessment(a),
                            _generate_key_metrics(a),
                            _generate_detailed_analysis(a),
                            <<>>,
                            TextFooterNotice,
                            TextFooterTags>>
                      full_report == Join(report_parts, "\n")
                  IN  IF Len(full_report) > ReportLimit
                      THEN LET t == _truncate_report(report_parts)
                           IN  [outcome |-> "returned", path |-> t.path,
                                text |-> t.text]
                      ELSE [outcome |-> "returned", path |-> "full",
                            text |-> full_report]

(***************************************************************************)
(* Idle values: a specification of one component holds the variables of    *)
(* the others at these values                                              *)
(***************************************************************************)
NoCall == [monitor_ok |-> FALSE, user_info |-> None, accounts |-> {}]

\* no call of update_trusted_list yet
NoUpdateCall == [at |-> -1, fetched |-> FALSE]

RiskIdle ==
    /\ analysis = CHOOSE a \in Analyses : TRUE
    /\ risk_score = NoScore
    /\ risk_prev = None

TrustIdle ==
    /\ config = CHOOSE c \in Configs : c.MIN_TRUSTED_FOLLOWERS = MaxMinTrustedFollowers
    /\ trusted_accounts = {}
    /\ last_update = None
    /\ cache_file = None
    /\ now = 0
    /\ remote_list = <<>>
    /\ fetched_text = None
    /\ update_result = "none"
    /\ update_call = NoUpdateCall
    /\ trust_call = NoCall
    /\ trust_score = NoTrust

NoReport == [outcome |-> "none", path |-> "none", text |-> <<>>]

NoReportCall == [analysis |-> None, trust_score |-> None]

ReportIdle ==
    /\ report_call = NoReportCall
    /\ report = NoReport

\* neither thread has started
WriterIdle == [pc |-> "idle", lines |-> <<>>, new_trusted_accounts |-> {}]

ReaderIdle == [pc |-> "idle", call |-> "none", username |-> <<>>,
               seen |-> {}, trusted |-> FALSE]

ConcIdle ==
    /\ writer = WriterIdle
    /\ reader = ReaderIdle
    /\ versions = {}

\* a profile with nothing in it, and no tweets
NoUserData ==
    [user_info |-> None, tweets |-> NoTweets, failing |-> {}]

\* analyze_account has not been called
NotExtracted == [done |-> FALSE, result |-> None]

ExtractIdle ==
    /\ user_data = NoUserData
    /\ extracted = NotExtracted

\* process_trigger has not been called
NoTrigger == [returned |-> "none", reply |-> None, saved |-> FALSE,
              marked |-> FALSE]

PipelineIdle == trigger = NoTrigger

\* most requests to the dashboard in flight at a time
MaxRequests == 3

Requests == 1..MaxRequests

DashIdle ==
    /\ requests = [r \in Requests |-> "idle"]
    /\ bot_processes = 0

\* retry_on_failure has not been called
NoRetry == [pc |-> "idle", max_retries |-> 0, delay |-> 0, attempt |-> 0,
            outcomes |-> <<>>, waits |-> <<>>,
            result |-> [kind |-> "none", value |-> "none"]]

\* no tracker has been constructed
NoTracker == [processed |-> {}, max_entries |-> 0, last_cleanup |-> 0,
              time |-> 0, marked |-> <<>>, shrunk |-> FALSE]

UtilIdle ==
    /\ retry = NoRetry
    /\ tracker = NoTracker

\* the tweet ids the search can return
MaxTweetId == 2

TweetIds == 1..MaxTweetId

NoRun == [pc |-> "idle", triggers |-> <<>>]

NothingHandled ==
    [id \in TweetIds |-> [returned |-> 0, handed |-> 0, replies |-> 0,
                          seen_again |-> FALSE]]

RunIdle ==
    /\ run = NoRun
    /\ processed_tweets = {}
    /\ db_processed = {}
    /\ handled = NothingHandled

LaterIdle ==
    /\ DashIdle
    /\ UtilIdle
    /\ RunIdle

ExtIdle ==
    /\ ConcIdle
    /\ ExtractIdle
    /\ PipelineIdle
    /\ LaterIdle

(***************************************************************************)
(* Specification of the risk scorer                                        *)
(***************************************************************************)
InitRisk ==
    /\ TrustIdle
    /\ ReportIdle
    /\ ExtIdle
    /\ analysis \in Analyses
    /\ risk_score = NoScore
    /\ risk_prev = None

\* analysis['risk_score'] = self._calculate_risk_score(analysis)
CalculateRiskScore ==
    /\ risk_score = NoScore
    /\ \E tie \in {0, 1} : risk_score' = _calculate_risk_score(analysis, tie)
    /\ UNCHANGED <<analysis, risk_prev>>
    /\ UNCHANGED trustVars
    /\ UNCHANGED reportVars
    /\ UNCHANGED extVars

\* a second analysis that differs from the scored one only in its
\* suspicious-content ratio
VarySuspiciousRatio ==
    /\ risk_score # NoScore
    /\ risk_prev = None
    /\ HasRatio(analysis)
    /\ \E c \in ContentAnalyses :
         /\ ContentHasRatio(c)
         /\ c.suspicious_content_ratio #
              analysis.content_analysis.suspicious_content_ratio
         /\ analysis' = [analysis EXCEPT !.content_analysis = c]
    /\ risk_prev' = Some([field |-> "suspicious_content_ratio",
                          analysis |-> analysis, risk_score |-> risk_score])
    /\ risk_score' = NoScore
    /\ UNCHANGED trustVars
    /\ UNCHANGED reportVars
    /\ UNCHANGED extVars

\* a second analysis that differs from the scored one only in the verified
\* flag
VaryVerified ==
    /\ risk_score # NoScore
    /\ risk_prev = None
    /\ analysis' = [analysis EXCEPT !.verification_status = ~@]
    /\ risk_prev' = Some([field |-> "verification_status",
                          analysis |-> analysis, risk_score |-> risk_score])
    /\ risk_score' = NoScore
    /\ UNCHANGED trustVars
    /\ UNCHANGED reportVars
    /\ UNCHANGED extVars

NextRisk ==
    \/ CalculateRiskScore
    \/ VarySuspiciousRatio
    \/ VaryVerified

SpecRisk == InitRisk /\ [][NextRisk]_vars

(***************************************************************************)
(* Specification of the trusted-accounts manager                           *)
(***************************************************************************)
\* longest response body of the trusted-list fetch, in characters
MaxTextLen == 3

\* longest username of an analysed account
MaxHandleLen == 2

\* seconds between two readings of the clock, and the last reading
TickSeconds == DefaultUpdateInterval
MaxClock == 3600

RECURSIVE SeqsUpTo(_, _)
SeqsUpTo(S, n) ==
    IF n = 0 THEN { <<>> }
    ELSE LET shorter == SeqsUpTo(S, n - 1)
         IN  shorter \cup { Append(q, x) : q \in shorter, x \in S }

\* the characters of a response body: letters in both cases, the '@' prefix,
\* the comment mark, blanks and line ends
TextChars == {"a", "A", "@", "#", " ", "\n"}

ResponseTexts == SeqsUpTo(TextChars, MaxTextLen)

\* usernames as the platform reports them
HandleChars == {"a", "A"}

Handles == SeqsUpTo(HandleChars, MaxHandleLen) \ { <<>> }

\* the cache a previous run of the bot can have left behind
InitialCaches ==
    {None} \cup { Some(CacheContents(ParseTrustedList(Strip(t)))) :
                    t \in { x \in SeqsUpTo(HandleChars \cup {"\n"}, MaxHandleLen + 1) :
                              Strip(x) # <<>> } }

\* TrustedAccountsManager.__init__
InitTrust ==
    /\ RiskIdle
    /\ ReportIdle
    /\ ExtIdle
    /\ config \in Configs
    /\ cache_file \in InitialCaches
    /\ trusted_accounts = _load_cached_accounts(cache_file)
    /\ last_update = None
    /\ now = 0
    /\ remote_list \in ResponseTexts
    /\ fetched_text = None
    /\ update_result = "none"
    /\ update_call = NoUpdateCall
    /\ trust_call = NoCall
    /\ trust_score = NoTrust

\* a plausible slip: the comparison the wrong way round
UpToDate_reversed ==
    /\ last_update # None
    /\ TimedeltaSeconds(now - last_update[1])
         > config.TRUSTED_ACCOUNTS_UPDATE_INTERVAL

\* the freshness test that makes update_trusted_list return early
UpToDate ==
    /\ last_update # None
    /\ TimedeltaSeconds(now - last_update[1])
         < config.TRUSTED_ACCOUNTS_UPDATE_INTERVAL

\* update_trusted_list, skipped because the list is fresh
UpdateSkipped ==
    /\ trust_score = NoTrust
    /\ UpToDate
    /\ update_result' = "True"
    /\ update_call' = [at |-> now, fetched |-> FALSE]
    /\ UNCHANGED <<config, trusted_accounts, last_update, cache_file, now,
                   remote_list, fetched_text, trust_call, trust_score>>
    /\ UNCHANGED riskVars
    /\ UNCHANGED reportVars
    /\ UNCHANGED extVars

\* a plausible slip: the time of the attempt stamped although it failed
UpdateFailed_stamped ==
    /\ trust_score = NoTrust
    /\ ~UpToDate
    /\ \E outcome \in {"network_error", "http_error", "ok"} :
          outcome = "ok" => Strip(remote_list) = <<>>
    /\ update_result' = "False"
    /\ update_call' = [at |-> now, fetched |-> TRUE]
    /\ last_update' = Some(now)
    /\ UNCHANGED <<config, trusted_accounts, cache_file, now,
                   remote_list, fetched_text, trust_call, trust_score>>
    /\ UNCHANGED riskVars
    /\ UNCHANGED reportVars
    /\ UNCHANGED extVars

\* update_trusted_list when requests.get or raise_for_status raises, or the
\* stripped body is empty
UpdateFailed ==
    /\ trust_score = NoTrust
    /\ ~UpToDate
    /\ \E outcome \in {"network_error", "http_error", "ok"} :
          outcome = "ok" => Strip(remote_list) = <<>>
    /\ update_result' = "False"
    /\ update_call' = [at |-> now, fetched |-> TRUE]
    /\ UNCHANGED <<config, trusted_accounts, last_update, cache_file, now,
                   remote_list, fetched_text, trust_call, trust_score>>
    /\ UNCHANGED riskVars
    /\ UNCHANGED reportVars
    /\ UNCHANGED extVars

\* update_trusted_list when the fetch succeeds: parse, replace the set,
\* stamp the time, write the cache (a failed write is logged and ignored)
UpdateInstalled ==
    /\ trust_score = NoTrust
    /\ ~UpToDate
    /\ Strip(remote_list) # <<>>
    /\ \E cache_written \in BOOLEAN :
          /\ trusted_accounts' = ParseTrustedList(Strip(remote_list))
          /\ fetched_text' = Some(remote_list)
          /\ cache_file' = IF cache_written
                           THEN Some(CacheContents(trusted_accounts'))
                           ELSE cache_file
    /\ last_update' = Some(now)
    /\ update_result' = "True"
    /\ update_call' = [at |-> now, fetched |-> TRUE]
    /\ UNCHANGED <<config, now, remote_list, trust_call, trust_score>>
    /\ UNCHANGED riskVars
    /\ UNCHANGED reportVars
    /\ UNCHANGED extVars

\* check_trust_score(user_id)
CheckTrustScore ==
    /\ trust_score = NoTrust
    /\ \E monitor_ok \in BOOLEAN, user_info \in {None} \cup { Some(h) : h \in Handles } :
          /\ ~monitor_ok => user_info = None
          /\ trust_call' = [monitor_ok |-> monitor_ok, user_info |-> user_info,
                            accounts |-> trusted_accounts]
          /\ trust_score' = check_trust_score(monitor_ok, user_info,
                                              trusted_accounts, config)
    /\ UNCHANGED <<config, trusted_accounts, last_update, cache_file, now,
                   remote_list, fetched_text, update_result, update_call>>
    /\ UNCHANGED riskVars
    /\ UNCHANGED reportVars
    /\ UNCHANGED extVars

\* the caller has taken the decision; the manager is ready for another call
TrustScoreTaken ==
    /\ trust_score # NoTrust
    /\ trust_score' = NoTrust
    /\ trust_call' = NoCall
    /\ UNCHANGED <<config, trusted_accounts, last_update, cache_file, now,
                   remote_list, fetched_text, update_result, update_call>>
    /\ UNCHANGED riskVars
    /\ UNCHANGED reportVars
    /\ UNCHANGED extVars

\* time passes
Tick ==
    /\ trust_score = NoTrust
    /\ now + TickSeconds <= MaxClock
    /\ now' = now + TickSeconds
    /\ UNCHANGED <<config, trusted_accounts, last_update, cache_file,
                   remote_list, fetched_text, update_result, update_call,
                   trust_call, trust_score>>
    /\ UNCHANGED riskVars
    /\ UNCHANGED reportVars
    /\ UNCHANGED extVars

NextTrust ==
    \/ UpdateSkipped
    \/ UpdateFailed
    \/ UpdateInstalled
    \/ CheckTrustScore
    \/ TrustScoreTaken
    \/ Tick

SpecTrust == InitTrust /\ [][NextTrust]_vars


(***************************************************************************)
(* Specification of the report generator                                   *)
(***************************************************************************)
\* handles of the analysed accounts have 1 character or a multiple of
\* ReportHandleStep characters, up to ReportHandleSteps multiples
ReportHandleStep == 110
ReportHandleSteps == 2

\* most trusted followers in a trust decision handed to the report
MaxTrustedFollowers == 1

ReportHandles ==
    { Repeat("a", n) :
        n \in {1} \cup { k * ReportHandleStep : k \in 1..ReportHandleSteps } }

\* risk scores as _calculate_risk_score returns them: the ints 0 and 100,
\* and one float in each label's range
ReportRiskScores ==
    { [tenths |-> 0, is_float |-> FALSE], [tenths |-> 125, is_float |-> TRUE],
      [tenths |-> 250, is_float |-> TRUE], [tenths |-> 555, is_float |-> TRUE],
      [tenths |-> 1000, is_float |-> FALSE] }

\* key metrics of three kinds of account: a fresh one, a months-old one
\* with thousands of followers, a years-old one with millions
ReportMetrics ==
    { [days |-> 0, followers_count |-> 0, avg_likes |-> 0],
      [days |-> 45, followers_count |-> 1500, avg_likes |-> 50],
      [days |-> 4000, followers_count |-> 25000000, avg_likes |-> 500] }

\* the analysis dicts handed to generate_report, with the entries it reads
ReportAnalyses ==
    { [username            |-> u,
       risk_score          |-> r,
       account_age         |-> [days |-> k.days],
       raw_metrics         |-> [followers_count |-> k.followers_count],
       engagement_analysis |-> [avg_likes |-> k.avg_likes],
       bio_analysis        |-> b,
       activity_patterns   |-> [recent_activity |-> act],
       content_analysis    |-> c,
       verification_status |-> v] :
      u \in ReportHandles, r \in ReportRiskScores,
      k \in ReportMetrics,
      b \in { [has_bio |-> FALSE, risk_level |-> "medium"],
              [has_bio |-> TRUE, risk_level |-> "high"],
              [has_bio |-> TRUE, risk_level |-> "medium"],
              [has_bio |-> TRUE, risk_level |-> "low"] },
      act \in BOOLEAN,
      c \in { _analyze_content(0, 0), _analyze_content(1, 4),
              _analyze_content(1, 2) },
      v \in BOOLEAN }

\* the decisions check_trust_score builds, and the network_backed variant
\* that _generate_trust_status recognises
ReportTrustDecisions ==
    LET classified ==
          { ClassifyFollowers(Repeat(<<"a">>, n), m) :
              n \in 0..MaxTrustedFollowers,
              m \in {0, MaxMinTrustedFollowers} }
    IN  {_default_trust_score, DirectlyTrusted(<<"a">>)}
          \cup classified
          \cup { [t EXCEPT !.trust_level = "network_backed"] :
                   t \in { x \in classified : x.is_trusted } }

InitReport ==
    /\ RiskIdle
    /\ TrustIdle
    /\ ExtIdle
    /\ report_call \in
         [analysis : {None} \cup { Some(a) : a \in ReportAnalyses },
          trust_score : {None} \cup { Some(t) : t \in ReportTrustDecisions }]
    /\ report = NoReport

\* report = self.report_generator.generate_report(analysis, trust_score, id)
GenerateReport ==
    /\ report = NoReport
    /\ report' = generate_report(report_call.analysis, report_call.trust_score)
    /\ UNCHANGED report_call
    /\ UNCHANGED riskVars
    /\ UNCHANGED trustVars
    /\ UNCHANGED extVars

NextReport == GenerateReport

SpecReport == InitReport /\ [][NextReport]_vars

(***************************************************************************)
(* Specification of the refresh timing of the trusted list                 *)
(***************************************************************************)
\* days the clock runs over
MaxDays == 1

\* the instants of a day at which the clock is read, in seconds
SecondsOfDay == {0, 30, 60, 3599, 3600, 3630}

RefreshInstants ==
    { day * SecondsPerDay + s : day \in 0..MaxDays, s \in SecondsOfDay }

\* int(os.getenv('TRUSTED_ACCOUNTS_UPDATE_INTERVAL', '3600')): a minute, the
\* default hour, and an interval longer than a day
RefreshIntervals == {60, DefaultUpdateInterval, SecondsPerDay + 60}

RefreshConfigs ==
    { [MIN_TRUSTED_FOLLOWERS |-> MaxMinTrustedFollowers,
       TRUSTED_ACCOUNTS_UPDATE_INTERVAL |-> i,
       MIN_ACCOUNT_AGE_DAYS |-> DefaultMinAccountAgeDays,
       SUSPICIOUS_FOLLOWER_RATIO |-> DefaultSuspiciousFollowerRatio] :
      i \in RefreshIntervals }

\* documents the list's URL can serve
RefreshTexts == SeqsUpTo(TextChars, 1)

\* TrustedAccountsManager.__init__, with or without a cache from an earlier
\* run
InitRefresh ==
    /\ RiskIdle
    /\ ReportIdle
    /\ ExtIdle
    /\ config \in RefreshConfigs
    /\ cache_file \in {None, Some(CacheContents({<<"a", "a">>}))}
    /\ trusted_accounts = _load_cached_accounts(cache_file)
    /\ last_update = None
    /\ now = 0
    /\ remote_list \in RefreshTexts
    /\ fetched_text = None
    /\ update_result = "none"
    /\ update_call = NoUpdateCall
    /\ trust_call = NoCall
    /\ trust_score = NoTrust

\* time passes between two calls
Elapse ==
    /\ \E t \in RefreshInstants :
          /\ t > now
          /\ now' = t
    /\ UNCHANGED <<config, trusted_accounts, last_update, cache_file,
                   remote_list, fetched_text, update_result, update_call,
                   trust_call, trust_score>>
    /\ UNCHANGED riskVars
    /\ UNCHANGED reportVars
    /\ UNCHANGED extVars

\* the maintainers of the list publish another document
RemoteListEdited ==
    /\ \E text \in RefreshTexts :
          /\ text # remote_list
          /\ remote_list' = text
    /\ UNCHANGED <<config, trusted_accounts, last_update, cache_file, now,
                   fetched_text, update_result, update_call, trust_call,
                   trust_score>>
    /\ UNCHANGED riskVars
    /\ UNCHANGED reportVars
    /\ UNCHANGED extVars

NextRefresh ==
    \/ UpdateSkipped
    \/ UpdateFailed
    \/ UpdateInstalled
    \/ Elapse
    \/ RemoteListEdited

SpecRefresh == InitRefresh /\ [][NextRefresh]_vars

(***************************************************************************)
(* Specification of a restart of the bot                                   *)
(***************************************************************************)
\* the bot process starts with no cache file and a document at the URL
InitRestart ==
    /\ RiskIdle
    /\ ReportIdle
    /\ ExtIdle
    /\ config \in RefreshConfigs
    /\ cache_file = None
    /\ trusted_accounts = _load_cached_accounts(cache_file)
    /\ last_update = None
    /\ now = 0
    /\ remote_list \in ResponseTexts
    /\ fetched_text = None
    /\ update_result = "none"
    /\ update_call = NoUpdateCall
    /\ trust_call = NoCall
    /\ trust_score = NoTrust

\* the process is started again: TrustedAccountsManager.__init__ binds an
\* empty set, clears last_update and loads the cache file
Restart ==
    /\ trust_score = NoTrust
    /\ trusted_accounts' = _load_cached_accounts(cache_file)
    /\ last_update' = None
    /\ UNCHANGED <<config, cache_file, now, remote_list, fetched_text,
                   update_result, update_call, trust_call, trust_score>>
    /\ UNCHANGED riskVars
    /\ UNCHANGED reportVars
    /\ UNCHANGED extVars

NextRestart ==
    \/ UpdateSkipped
    \/ UpdateFailed
    \/ UpdateInstalled
    \/ CheckTrustScore
    \/ TrustScoreTaken
    \/ Tick
    \/ Restart

SpecRestart == InitRestart /\ [][NextRestart]_vars

(***************************************************************************)
(* Specification of a refresh running beside classification calls, one    *)
(* statement of either thread at a time                                    *)
(***************************************************************************)
\* documents with one and with two handles
ConcurrentTexts == { <<"a", "\n", "A", "a">>, <<"@", "a", "a", "a">>,
                     <<"a">> }

\* one pass of the parsing loop: the local set after the line
ParseLineInto(new_trusted_accounts, line) ==
    IF /\ Strip(line) # <<>>
       /\ Strip(line)[1] # "#"
       /\ ParseLine(line) # <<>>
    THEN new_trusted_accounts \cup { ParseLine(line) }
    ELSE new_trusted_accounts

\* RugguardBot.__init__ on one thread, before a second thread exists
InitConcurrent ==
    /\ RiskIdle
    /\ ReportIdle
    /\ config \in Configs
    /\ cache_file \in {None, Some(CacheContents({<<"a", "a">>}))}
    /\ trusted_accounts = _load_cached_accounts(cache_file)
    /\ last_update = None
    /\ now = 0
    /\ remote_list \in ConcurrentTexts
    /\ fetched_text = None
    /\ update_result = "none"
    /\ update_call = NoUpdateCall
    /\ trust_call = NoCall
    /\ trust_score = NoTrust
    /\ writer = WriterIdle
    /\ reader = ReaderIdle
    /\ versions = {trusted_accounts}
    /\ ExtractIdle
    /\ PipelineIdle
    /\ LaterIdle

\* update_trusted_list up to the start of the parsing loop: the list is not
\* fresh, the fetch succeeds and the body is not empty
BeginRefresh ==
    /\ writer.pc = "idle"
    /\ ~UpToDate
    /\ Strip(remote_list) # <<>>
    /\ writer' = [pc |-> "parsing",
                  lines |-> Split(Strip(remote_list), "\n"),
                  new_trusted_accounts |-> {}]
    /\ fetched_text' = Some(remote_list)
    /\ update_call' = [at |-> now, fetched |-> TRUE]
    /\ UNCHANGED <<config, trusted_accounts, last_update, cache_file, now,
                   remote_list, update_result, trust_call, trust_score>>
    /\ UNCHANGED <<reader, versions>>
    /\ UNCHANGED riskVars
    /\ UNCHANGED reportVars
    /\ UNCHANGED extractVars
    /\ UNCHANGED pipelineVars
    /\ UNCHANGED laterVars

\* a plausible slip: the loop adds to the shared set instead of a local one
ParseNextLine_in_place ==
    /\ writer.pc = "parsing"
    /\ writer.lines # <<>>
    /\ writer' = [writer EXCEPT
                    !.lines = Tail(@),
                    !.new_trusted_accounts =
                        ParseLineInto(@, Head(writer.lines))]
    /\ trusted_accounts' = ParseLineInto(trusted_accounts, Head(writer.lines))
    /\ UNCHANGED <<config, last_update, cache_file, now,
                   remote_list, fetched_text, update_result, update_call,
                   trust_call, trust_score>>
    /\ UNCHANGED <<reader, versions>>
    /\ UNCHANGED riskVars
    /\ UNCHANGED reportVars
    /\ UNCHANGED extractVars
    /\ UNCHANGED pipelineVars
    /\ UNCHANGED laterVars

\* one pass of  for line in content.split('\n')
ParseNextLine ==
    /\ writer.pc = "parsing"
    /\ writer.lines # <<>>
    /\ writer' = [writer EXCEPT
                    !.lines = Tail(@),
                    !.new_trusted_accounts =
                        ParseLineInto(@, Head(writer.lines))]
    /\ UNCHANGED <<config, trusted_accounts, last_update, cache_file, now,
                   remote_list, fetched_text, update_result, update_call,
                   trust_call, trust_score>>
    /\ UNCHANGED <<reader, versions>>
    /\ UNCHANGED riskVars
    /\ UNCHANGED reportVars
    /\ UNCHANGED extractVars
    /\ UNCHANGED pipelineVars
    /\ UNCHANGED laterVars

\* self.trusted_accounts = new_trusted_accounts
InstallParsed ==
    /\ writer.pc = "parsing"
    /\ writer.lines = <<>>
    /\ trusted_accounts' = writer.new_trusted_accounts
    /\ writer' = [writer EXCEPT !.pc = "stamp"]
    /\ versions' = IF reader.pc = "idle"
                   THEN { writer.new_trusted_accounts }
                   ELSE versions \cup { writer.new_trusted_accounts }
    /\ UNCHANGED <<config, last_update, cache_file, now, remote_list,
                   fetched_text, update_result, update_call, trust_call,
                   trust_score>>
    /\ UNCHANGED reader
    /\ UNCHANGED riskVars
    /\ UNCHANGED reportVars
    /\ UNCHANGED extractVars
    /\ UNCHANGED pipelineVars
    /\ UNCHANGED laterVars

\* self.last_update = datetime.now()
StampUpdate ==
    /\ writer.pc = "stamp"
    /\ last_update' = Some(now)
    /\ writer' = [writer EXCEPT !.pc = "cache"]
    /\ UNCHANGED <<config, trusted_accounts, cache_file, now, remote_list,
                   fetched_text, update_result, update_call, trust_call,
                   trust_score>>
    /\ UNCHANGED <<reader, versions>>
    /\ UNCHANGED riskVars
    /\ UNCHANGED reportVars
    /\ UNCHANGED extractVars
    /\ UNCHANGED pipelineVars
    /\ UNCHANGED laterVars

\* self._cache_accounts() and return True
WriteCache ==
    /\ writer.pc = "cache"
    /\ \E cache_written \in BOOLEAN :
          cache_file' = IF cache_written
                        THEN Some(CacheContents(trusted_accounts))
                        ELSE cache_file
    /\ update_result' = "True"
    /\ writer' = WriterIdle
    /\ UNCHANGED <<config, trusted_accounts, last_update, now, remote_list,
                   fetched_text, update_call, trust_call, trust_score>>
    /\ UNCHANGED <<reader, versions>>
    /\ UNCHANGED riskVars
    /\ UNCHANGED reportVars
    /\ UNCHANGED extractVars
    /\ UNCHANGED pipelineVars
    /\ UNCHANGED laterVars

\* check_trust_score down to  username = user_info['username'].lower(), or
\* is_account_trusted down to  username.lower().lstrip('@')
BeginClassification ==
    /\ reader.pc = "idle"
    /\ \E call \in {"check_trust_score", "is_account_trusted"},
          handle \in Handles :
          reader' = [ReaderIdle EXCEPT
                       !.pc = "lookup",
                       !.call = call,
                       !.username = IF call = "is_account_trusted"
                                    THEN LStrip(Lower(handle), "@")
                                    ELSE Lower(handle)]
    /\ versions' = {trusted_accounts}
    /\ UNCHANGED trustVars
    /\ UNCHANGED writer
    /\ UNCHANGED riskVars
    /\ UNCHANGED reportVars
    /\ UNCHANGED extractVars
    /\ UNCHANGED pipelineVars
    /\ UNCHANGED laterVars

\* username in self.trusted_accounts
LookupTrusted ==
    /\ reader.pc = "lookup"
    /\ LET found == reader.username \in trusted_accounts
           finished == found \/ reader.call = "is_account_trusted"
       IN  /\ reader' = [reader EXCEPT
                           !.pc = IF finished THEN "done" ELSE "sample",
                           !.seen = {trusted_accounts},
                           !.trusted = found]
           /\ trust_score' = IF found /\ reader.call = "check_trust_score"
                             THEN DirectlyTrusted(reader.username)
                             ELSE trust_score
    /\ UNCHANGED <<config, trusted_accounts, last_update, cache_file, now,
                   remote_list, fetched_text, update_result, update_call,
                   trust_call>>
    /\ UNCHANGED <<writer, versions>>
    /\ UNCHANGED riskVars
    /\ UNCHANGED reportVars
    /\ UNCHANGED extractVars
    /\ UNCHANGED pipelineVars
    /\ UNCHANGED laterVars

\* _get_trusted_followers, which reads self.trusted_accounts again, and the
\* decision from its result
SampleTrusted ==
    /\ reader.pc = "sample"
    /\ reader' = [reader EXCEPT
                    !.pc = "done",
                    !.seen = @ \cup {trusted_accounts}]
    /\ trust_score' = ClassifyFollowers(_get_trusted_followers(trusted_accounts),
                                        config.MIN_TRUSTED_FOLLOWERS)
    /\ UNCHANGED <<config, trusted_accounts, last_update, cache_file, now,
                   remote_list, fetched_text, update_result, update_call,
                   trust_call>>
    /\ UNCHANGED <<writer, versions>>
    /\ UNCHANGED riskVars
    /\ UNCHANGED reportVars
    /\ UNCHANGED extractVars
    /\ UNCHANGED pipelineVars
    /\ UNCHANGED laterVars

\* the caller has the decision; the thread is free for another call
ClassificationTaken ==
    /\ reader.pc = "done"
    /\ reader' = ReaderIdle
    /\ trust_score' = NoTrust
    /\ versions' = {trusted_accounts}
    /\ UNCHANGED <<config, trusted_accounts, last_update, cache_file, now,
                   remote_list, fetched_text, update_result, update_call,
                   trust_call>>
    /\ UNCHANGED writer
    /\ UNCHANGED riskVars
    /\ UNCHANGED reportVars
    /\ UNCHANGED extractVars
    /\ UNCHANGED pipelineVars
    /\ UNCHANGED laterVars

NextConcurrent ==
    \/ BeginRefresh
    \/ ParseNextLine
    \/ InstallParsed
    \/ StampUpdate
    \/ WriteCache
    \/ BeginClassification
    \/ LookupTrusted
    \/ SampleTrusted
    \/ ClassificationTaken
    \/ Tick
    \/ RemoteListEdited

SpecConcurrent == InitConcurrent /\ [][NextConcurrent]_vars

(***************************************************************************)
(* Specification of the analysis of one account                            *)
(***************************************************************************)
\* most words in a bio
MaxBioWords == 3

\* words of a bio: suspicious keywords in either case, a word that holds
\* one ('ape' in 'grape'), a positive keyword, and the two halves of the
\* keyword 'act now'
BioWords ==
    { <<"P", "u", "m", "p">>, <<"m", "o", "o", "n">>,
      <<"l", "a", "m", "b", "o">>, <<"g", "r", "a", "p", "e">>,
      <<"r", "e", "s", "e", "a", "r", "c", "h">>,
      <<"a", "c", "t">>, <<"n", "o", "w">> }

BioTexts == { Join(words, " ") : words \in SeqsUpTo(BioWords, MaxBioWords) }

FollowerCounts == {0, 5, 10, 11, 100, 1000, 1001, 5000}

FollowingCounts == {0, 1, 9, 10, 100}

AccountAges == {0, 29, 30, 400}

\* samples of tweets: none, a single quiet one, twenty popular ones in five
\* days, twenty in one burst, twenty over two months
TweetSamples ==
    { NoTweets,
      [count |-> 1, like_count |-> 0, retweet_count |-> 0, reply_count |-> 0,
       suspicious_count |-> 1, days_span |-> 1, recent |-> TRUE],
      [count |-> 20, like_count |-> 150, retweet_count |-> 30,
       reply_count |-> 4, suspicious_count |-> 5, days_span |-> 5,
       recent |-> TRUE],
      [count |-> 20, like_count |-> 20, retweet_count |-> 3,
       reply_count |-> 0, suspicious_count |-> 0, days_span |-> 0,
       recent |-> TRUE],
      [count |-> 20, like_count |-> 5, retweet_count |-> 0,
       reply_count |-> 1, suspicious_count |-> 13, days_span |-> 60,
       recent |-> FALSE] }

\* at most one sub-computation fails in a call
Failings == { {} } \cup { {f} : f \in Features }

UserInfo(username, age_days, followers, following, description, verified) ==
    [username |-> username, age_days |-> age_days,
     followers_count |-> followers, following_count |-> following,
     description |-> description, verified |-> verified]

\* the accounts analysed: every bio on an ordinary profile, every pair of
\* follower counts on an ordinary profile, and a few bios and counts with
\* every age, sample of tweets, verification flag and failure
UserDatas ==
    { [user_info |-> Some(UserInfo(<<"a">>, 400, 100, 100, bio, FALSE)),
       tweets |-> NoTweets, failing |-> {}] : bio \in BioTexts }
    \cup
    { [user_info |-> Some(UserInfo(<<"a">>, 400, followers, following,
                                   <<>>, FALSE)),
       tweets |-> NoTweets, failing |-> {}] :
      followers \in FollowerCounts, following \in FollowingCounts }
    \cup
    { [user_info |-> Some(UserInfo(<<"a">>, age, c[1], c[2], bio, verified)),
       tweets |-> tweets, failing |-> failing] :
      age \in {29, 400},
      c \in { <<100, 100>>, <<5000, 0>> },
      bio \in { <<>>, <<"m", "o", "o", "n">>,
                Join(<<<<"P", "u", "m", "p">>, <<"m", "o", "o", "n">>,
                       <<"l", "a", "m", "b", "o">>>>, " ") },
      verified \in BOOLEAN,
      tweets \in TweetSamples,
      failing \in Failings }
    \cup
    { NoUserData }

InitExtract ==
    /\ RiskIdle
    /\ TrustIdle
    /\ ReportIdle
    /\ ConcIdle
    /\ PipelineIdle
    /\ LaterIdle
    /\ user_data \in UserDatas
    /\ extracted = NotExtracted

\* analysis_result = self.analyzer.analyze_account(original_author_id)
AnalyzeAccount ==
    /\ ~extracted.done
    /\ \E tie \in {0, 1} :
          extracted' = [done |-> TRUE,
                        result |-> analyze_account(user_data.user_info,
                                                   user_data.tweets, config,
                                                   user_data.failing, tie)]
    /\ UNCHANGED user_data
    /\ UNCHANGED riskVars
    /\ UNCHANGED trustVars
    /\ UNCHANGED reportVars
    /\ UNCHANGED concVars
    /\ UNCHANGED pipelineVars
    /\ UNCHANGED laterVars

NextExtract == AnalyzeAccount

SpecExtract == InitExtract /\ [][NextExtract]_vars

(***************************************************************************)
(* Specification of process_trigger                                        *)
(***************************************************************************)
\* the accounts a trigger can name: one the platform returns no profile
\* for, and profiles with and without tweets
TriggerAccounts ==
    { NoUserData }
    \cup
    { [user_info |-> Some(UserInfo(<<"a">>, age, 100, 100, bio, FALSE)),
       tweets |-> tweets, failing |-> {}] :
      age \in {29, 400},
      bio \in { <<>>, <<"m", "o", "o", "n">> },
      tweets \in TweetSamples }

\* RugguardBot.__init__, and the trigger handed to process_trigger
InitPipeline ==
    /\ RiskIdle
    /\ ReportIdle
    /\ ConcIdle
    /\ LaterIdle
    /\ config \in Configs
    /\ cache_file = None
    /\ trusted_accounts \in { {}, {<<"a">>} }
    /\ last_update = None
    /\ now = 0
    /\ remote_list = <<>>
    /\ fetched_text = None
    /\ update_result = "none"
    /\ update_call = NoUpdateCall
    /\ trust_call = NoCall
    /\ trust_score = NoTrust
    /\ user_data \in TriggerAccounts
    /\ extracted = NotExtracted
    /\ trigger = NoTrigger

\* process_trigger when analyze_account returns None: return False
TriggerNotAnalyzed ==
    /\ trigger = NoTrigger
    /\ \E tie \in {0, 1} :
          extracted' = [done |-> TRUE,
                        result |-> analyze_account(user_data.user_info,
                                                   user_data.tweets, config,
                                                   user_data.failing, tie)]
    /\ extracted'.result = None
    /\ trigger' = [returned |-> "False", reply |-> None, saved |-> FALSE,
                   marked |-> FALSE]
    /\ UNCHANGED user_data
    /\ UNCHANGED riskVars
    /\ UNCHANGED trustVars
    /\ UNCHANGED reportVars
    /\ UNCHANGED concVars
    /\ UNCHANGED laterVars

\* a plausible slip: the trigger marked as processed outside the success
\* branch
TriggerAnalyzed_marks_regardless ==
    /\ trigger = NoTrigger
    /\ \E tie \in {0, 1}, monitor_ok \in BOOLEAN, posted \in BOOLEAN,
          saved \in BOOLEAN, marked \in BOOLEAN :
          /\ extracted' = [done |-> TRUE,
                           result |-> analyze_account(user_data.user_info,
                                                      user_data.tweets, config,
                                                      user_data.failing, tie)]
          /\ extracted'.result # None
          /\ trust_call' = [monitor_ok |-> monitor_ok,
                            user_info |->
                                IF monitor_ok
                                THEN Some(user_data.user_info[1].username)
                                ELSE None,
                            accounts |-> trusted_accounts]
          /\ trust_score' = check_trust_score(monitor_ok, trust_call'.user_info,
                                              trusted_accounts, config)
          /\ report_call' = [analysis |-> extracted'.result,
                             trust_score |-> Some(trust_score')]
          /\ report' = generate_report(report_call'.analysis,
                                       report_call'.trust_score)
          /\ trigger' =
               IF report'.outcome = "returned" /\ posted
               THEN [returned |-> "True", reply |-> Some(report'.text),
                     saved |-> saved, marked |-> marked]
               ELSE [returned |-> "False", reply |-> None, saved |-> FALSE,
                     marked |-> marked]
    /\ UNCHANGED <<config, trusted_accounts, last_update, cache_file, now,
                   remote_list, fetched_text, update_result, update_call>>
    /\ UNCHANGED user_data
    /\ UNCHANGED riskVars
    /\ UNCHANGED concVars
    /\ UNCHANGED laterVars

\* process_trigger when the account was analysed: the trust check (which
\* fetches the profile once more), the report, the reply, and after a
\* posted reply the two database writes, each of which returns False on an
\* error without raising
TriggerAnalyzed ==
    /\ trigger = NoTrigger
    /\ \E tie \in {0, 1}, monitor_ok \in BOOLEAN, posted \in BOOLEAN,
          saved \in BOOLEAN, marked \in BOOLEAN :
          /\ extracted' = [done |-> TRUE,
                           result |-> analyze_account(user_data.user_info,
                                                      user_data.tweets, config,
                                                      user_data.failing, tie)]
          /\ extracted'.result # None
          /\ trust_call' = [monitor_ok |-> monitor_ok,
                            user_info |->
                                IF monitor_ok
                                THEN Some(user_data.user_info[1].username)
                                ELSE None,
                            accounts |-> trusted_accounts]
          /\ trust_score' = check_trust_score(monitor_ok, trust_call'.user_info,
                                              trusted_accounts, config)
          /\ report_call' = [analysis |-> extracted'.result,
                             trust_score |-> Some(trust_score')]
          /\ report' = generate_report(report_call'.analysis,
                                       report_call'.trust_score)
          /\ trigger' =
               IF report'.outcome = "returned" /\ posted
               THEN [returned |-> "True", reply |-> Some(report'.text),
                     saved |-> saved, marked |-> marked]
               ELSE [returned |-> "False", reply |-> None, saved |-> FALSE,
                     marked |-> FALSE]
    /\ UNCHANGED <<config, trusted_accounts, last_update, cache_file, now,
                   remote_list, fetched_text, update_result, update_call>>
    /\ UNCHANGED user_data
    /\ UNCHANGED riskVars
    /\ UNCHANGED concVars
    /\ UNCHANGED laterVars

NextPipeline ==
    \/ TriggerNotAnalyzed
    \/ TriggerAnalyzed

SpecPipeline == InitPipeline /\ [][NextPipeline]_vars

(***************************************************************************)
(* Specification of the dashboard's start and stop requests                *)
(***************************************************************************)
\* most bot processes the host lets run
MaxBotProcesses == 3

\* what the components that the dashboard does not touch hold
DashboardFrame ==
    /\ UNCHANGED riskVars
    /\ UNCHANGED trustVars
    /\ UNCHANGED reportVars
    /\ UNCHANGED concVars
    /\ UNCHANGED extractVars
    /\ UNCHANGED pipelineVars
    /\ UNCHANGED utilVars
    /\ UNCHANGED runVars

InitDashboard ==
    /\ RiskIdle
    /\ TrustIdle
    /\ ReportIdle
    /\ ExtIdle

\* POST /api/start arrives; check_configuration
StartRequested(r) ==
    /\ requests[r] = "idle"
    /\ \E configured \in BOOLEAN :
          requests' = [requests EXCEPT ![r] = IF configured THEN "check"
                                              ELSE "incomplete"]
    /\ UNCHANGED bot_processes
    /\ DashboardFrame

\* result = subprocess.run(['pgrep', '-f', 'main.py']); returncode 0 means
\* a process was found; a raised error gives the 'Error starting bot' reply
PgrepRun(r) ==
    /\ requests[r] = "check"
    /\ \E raised \in BOOLEAN :
          requests' = [requests EXCEPT ![r] =
                          IF raised THEN "error"
                          ELSE IF bot_processes > 0 THEN "already_running"
                          ELSE "launch"]
    /\ UNCHANGED bot_processes
    /\ DashboardFrame

\* subprocess.Popen(['python', 'main.py']), in the handler or in the thread
\* it started
BotLaunched(r) ==
    /\ requests[r] = "launch"
    /\ bot_processes < MaxBotProcesses
    /\ \E started \in BOOLEAN :
          /\ bot_processes' = IF started THEN bot_processes + 1
                              ELSE bot_processes
          /\ requests' = [requests EXCEPT ![r] = IF started THEN "initiated"
                                                  ELSE "error"]
    /\ DashboardFrame

\* the reply is written and the handler returns
ResponseSent(r) ==
    /\ requests[r] \in {"incomplete", "already_running", "initiated", "error"}
    /\ requests' = [requests EXCEPT ![r] = "idle"]
    /\ UNCHANGED bot_processes
    /\ DashboardFrame

\* POST /api/stop: pkill -f main.py
ApiStop ==
    /\ bot_processes > 0
    /\ bot_processes' = 0
    /\ UNCHANGED requests
    /\ DashboardFrame

\* a bot process ends by itself
BotExited ==
    /\ bot_processes > 0
    /\ bot_processes' = bot_processes - 1
    /\ UNCHANGED requests
    /\ DashboardFrame

NextDashboard ==
    \/ \E r \in Requests : StartRequested(r)
    \/ \E r \in Requests : PgrepRun(r)
    \/ \E r \in Requests : BotLaunched(r)
    \/ \E r \in Requests : ResponseSent(r)
    \/ ApiStop
    \/ BotExited

SpecDashboard == InitDashboard /\ [][NextDashboard]_vars

(***************************************************************************)
(* Specification of retry_on_failure                                       *)
(***************************************************************************)
\* largest max_retries of a call
MaxRetries == 4

\* the delays of a call, in seconds
RetryDelays == {0, 1, 3}

\* what func returns and what it raises
FuncValues == {"v1", "v2"}

FuncErrors == {"e1", "e2"}

\* what the components that the utilities do not touch hold
UtilFrame ==
    /\ UNCHANGED riskVars
    /\ UNCHANGED trustVars
    /\ UNCHANGED reportVars
    /\ UNCHANGED concVars
    /\ UNCHANGED extractVars
    /\ UNCHANGED pipelineVars
    /\ UNCHANGED dashVars
    /\ UNCHANGED runVars

\* retry_on_failure(func, max_retries, delay) is entered
InitRetry ==
    /\ RiskIdle
    /\ TrustIdle
    /\ ReportIdle
    /\ ConcIdle
    /\ ExtractIdle
    /\ PipelineIdle
    /\ DashIdle
    /\ RunIdle
    /\ tracker = NoTracker
    /\ retry \in { [NoRetry EXCEPT !.pc = "loop", !.max_retries = m,
                                   !.delay = d] :
                   m \in 0..MaxRetries, d \in RetryDelays }

\* an iteration in which func() returns: return func()
AttemptReturns ==
    /\ retry.pc = "loop"
    /\ retry.attempt < retry.max_retries
    /\ \E v \in FuncValues :
          retry' = [retry EXCEPT !.pc = "done",
                                 !.outcomes = Append(@, v),
                                 !.result = [kind |-> "returned", value |-> v]]
    /\ UNCHANGED tracker
    /\ UtilFrame

\* an iteration in which func() raises: the last attempt re-raises, any
\* other sleeps delay * (2 ** attempt) and goes on
AttemptRaises ==
    /\ retry.pc = "loop"
    /\ retry.attempt < retry.max_retries
    /\ \E e \in FuncErrors :
          retry' =
            IF retry.attempt = retry.max_retries - 1
            THEN [retry EXCEPT !.pc = "done",
                               !.outcomes = Append(@, e),
                               !.result = [kind |-> "raised", value |-> e]]
            ELSE [retry EXCEPT !.outcomes = Append(@, e),
                               !.waits = Append(@, retry.delay
                                                     * (2 ^ retry.attempt)),
                               !.attempt = @ + 1]
    /\ UNCHANGED tracker
    /\ UtilFrame

\* range(max_retries) is exhausted: the function ends without a return
\* statement and the caller receives None
LoopExhausted ==
    /\ retry.pc = "loop"
    /\ retry.attempt >= retry.max_retries
    /\ retry' = [retry EXCEPT !.pc = "done",
                              !.result = [kind |-> "fell_through",
                                          value |-> "None"]]
    /\ UNCHANGED tracker
    /\ UtilFrame

NextRetry ==
    \/ AttemptReturns
    \/ AttemptRaises
    \/ LoopExhausted

SpecRetry == InitRetry /\ [][NextRetry]_vars

(***************************************************************************)
(* Specification of ProcessedTweetsTracker                                 *)
(***************************************************************************)
\* largest max_entries of a tracker
MaxTrackerEntries == 3

\* the tweet ids handed to a tracker
TrackerIds == 1..5

\* the seconds between two readings of time.time(), and the last reading
TrackerStep == 1801
MaxTrackerClock == 3 * TrackerStep

\* -self.max_entries // 2: the unary minus binds first, and // rounds
\* toward minus infinity
SliceStart(max_entries) == -((max_entries + 1) \div 2)

\* set(list(self.processed)[start:]) for a negative or zero start: the
\* list of a set is in no defined order, so any -start elements can be the
\* last ones; a start of 0 keeps them all
SlicesOf(processed, start) ==
    IF start = 0 \/ Cardinality(processed) <= -start THEN { processed }
    ELSE { kept \in SUBSET processed : Cardinality(kept) = -start }

\* _cleanup, where kept is the set the slice leaves
Cleanup(t, kept) ==
    IF t.time - t.last_cleanup > 3600
    THEN IF Cardinality(t.processed) > t.max_entries
         THEN [t EXCEPT !.processed = kept, !.last_cleanup = t.time,
                        !.shrunk = (kept # t.processed)]
         ELSE [t EXCEPT !.last_cleanup = t.time, !.shrunk = FALSE]
    ELSE [t EXCEPT !.shrunk = FALSE]

\* the ids in the order of their latest mark
MarkedOrder(marked, id) ==
    SelectSeq(marked, LAMBDA x : x # id) \o <<id>>

\* ProcessedTweetsTracker(max_entries)
InitTracker ==
    /\ RiskIdle
    /\ TrustIdle
    /\ ReportIdle
    /\ ConcIdle
    /\ ExtractIdle
    /\ PipelineIdle
    /\ DashIdle
    /\ RunIdle
    /\ retry = NoRetry
    /\ tracker \in { [NoTracker EXCEPT !.max_entries = m] :
                     m \in 1..MaxTrackerEntries }

\* mark_processed(tweet_id), with the cleanup it calls
MarkProcessed(id) ==
    /\ LET added == [tracker EXCEPT !.processed = @ \cup {id},
                                    !.marked = MarkedOrder(@, id),
                                    !.shrunk = FALSE]
       IN  IF Cardinality(added.processed) > added.max_entries
           THEN \E kept \in SlicesOf(added.processed,
                                     SliceStart(added.max_entries)) :
                   tracker' = Cleanup(added, kept)
           ELSE tracker' = added
    /\ UNCHANGED retry
    /\ UtilFrame

\* time passes
TrackerClockAdvances ==
    /\ tracker.time + TrackerStep <= MaxTrackerClock
    /\ tracker' = [tracker EXCEPT !.time = @ + TrackerStep]
    /\ UNCHANGED retry
    /\ UtilFrame

NextTracker ==
    \/ \E id \in TrackerIds : MarkProcessed(id)
    \/ TrackerClockAdvances

SpecTracker == InitTracker /\ [][NextTracker]_vars

(***************************************************************************)
(* Specification of the main loop                                          *)
(***************************************************************************)
\* int(os.getenv('POLLING_INTERVAL', '60'))
DefaultPollingInterval == 60

\* the clock of the loop stops advancing here
MaxRunClock == 240

\* the update intervals of a run: one and two polling intervals
RunConfigs ==
    { [MIN_TRUSTED_FOLLOWERS |-> MaxMinTrustedFollowers,
       TRUSTED_ACCOUNTS_UPDATE_INTERVAL |-> i,
       MIN_ACCOUNT_AGE_DAYS |-> DefaultMinAccountAgeDays,
       SUSPICIOUS_FOLLOWER_RATIO |-> DefaultSuspiciousFollowerRatio] :
      i \in {DefaultPollingInterval, 2 * DefaultPollingInterval} }

\* the documents at the URL during a run: an empty one and a list
RunTexts == { <<>>, <<"a">> }

\* the tweet ids of a set in the order of the search result
IdsInOrder(ids) ==
    SelectSeq([i \in 1..MaxTweetId |-> i], LAMBDA id : id \in ids)

\* what the components that the loop does not touch hold
RunFrame ==
    /\ UNCHANGED riskVars
    /\ UNCHANGED reportVars
    /\ UNCHANGED concVars
    /\ UNCHANGED extractVars
    /\ UNCHANGED pipelineVars
    /\ UNCHANGED dashVars
    /\ UNCHANGED utilVars

\* RugguardBot.__init__ and the entry of run()
InitRun ==
    /\ RiskIdle
    /\ ReportIdle
    /\ ConcIdle
    /\ ExtractIdle
    /\ PipelineIdle
    /\ DashIdle
    /\ UtilIdle
    /\ config \in RunConfigs
    /\ cache_file = None
    /\ trusted_accounts = _load_cached_accounts(cache_file)
    /\ last_update = None
    /\ now = 0
    /\ remote_list \in RunTexts
    /\ fetched_text = None
    /\ update_result = "none"
    /\ update_call = NoUpdateCall
    /\ trust_call = NoCall
    /\ trust_score = NoTrust
    /\ run = [NoRun EXCEPT !.pc = "start"]
    /\ processed_tweets = {}
    /\ db_processed \in SUBSET TweetIds
    /\ handled = NothingHandled

\* self.trusted_accounts.update_trusted_list() before the loop: the fetch
\* fails, or the parsed list is installed
StartUpRefresh ==
    /\ run.pc = "start"
    /\ \/ /\ \E outcome \in {"network_error", "http_error", "ok"} :
               outcome = "ok" => Strip(remote_list) = <<>>
          /\ update_result' = "False"
          /\ UNCHANGED <<trusted_accounts, last_update, cache_file,
                         fetched_text>>
       \/ /\ Strip(remote_list) # <<>>
          /\ \E cache_written \in BOOLEAN :
                /\ trusted_accounts' = ParseTrustedList(Strip(remote_list))
                /\ fetched_text' = Some(remote_list)
                /\ cache_file' = IF cache_written
                                 THEN Some(CacheContents(trusted_accounts'))
                                 ELSE cache_file
          /\ last_update' = Some(now)
          /\ update_result' = "True"
    /\ update_call' = [at |-> now, fetched |-> TRUE]
    /\ run' = [run EXCEPT !.pc = "poll"]
    /\ UNCHANGED <<config, now, remote_list, trust_call, trust_score>>
    /\ UNCHANGED <<processed_tweets, db_processed, handled>>
    /\ RunFrame

\* a plausible slip: the monitor does not remember the ids it returned
CheckForTriggers_no_memory ==
    /\ run.pc = "poll"
    /\ \E found \in SUBSET TweetIds :
       \E seen \in SUBSET found :
       \E valid \in SUBSET seen :
          LET new == valid
          IN  /\ processed_tweets' = processed_tweets \cup new
              /\ run' = [pc |-> "dispatch", triggers |-> IdsInOrder(new)]
              /\ handled' =
                   [id \in TweetIds |->
                      IF id \in new
                      THEN [handled[id] EXCEPT !.returned = @ + 1]
                      ELSE IF id \in seen \cap processed_tweets
                      THEN [handled[id] EXCEPT !.seen_again = TRUE]
                      ELSE handled[id]]
    /\ UNCHANGED db_processed
    /\ UNCHANGED trustVars
    /\ RunFrame

\* triggers = self.monitor.check_for_triggers(): the search returns the
\* tweets `found` (none if it raises); the loop visits `seen` of them
\* before it ends or raises; `valid` are the visited ones that are valid
\* triggers whose original author could be determined
CheckForTriggers ==
    /\ run.pc = "poll"
    /\ \E found \in SUBSET TweetIds :
       \E seen \in SUBSET found :
       \E valid \in SUBSET seen :
          LET new == valid \ processed_tweets
          IN  /\ processed_tweets' = processed_tweets \cup new
              /\ run' = [pc |-> "dispatch", triggers |-> IdsInOrder(new)]
              /\ handled' =
                   [id \in TweetIds |->
                      IF id \in new
                      THEN [handled[id] EXCEPT !.returned = @ + 1]
                      ELSE IF id \in seen \cap processed_tweets
                      THEN [handled[id] EXCEPT !.seen_again = TRUE]
                      ELSE handled[id]]
    /\ UNCHANGED db_processed
    /\ UNCHANGED trustVars
    /\ RunFrame

\* if self.db.is_tweet_processed(...): continue
SkipProcessedTrigger ==
    /\ run.pc = "dispatch"
    /\ run.triggers # <<>>
    /\ Head(run.triggers) \in db_processed
    /\ run' = [run EXCEPT !.triggers = Tail(@)]
    /\ UNCHANGED <<processed_tweets, db_processed, handled>>
    /\ UNCHANGED trustVars
    /\ RunFrame

\* self.process_trigger(...) for a trigger the database does not report as
\* processed (a failed lookup reports False): the analysis fails, or the
\* reply fails, or the reply is posted and the row is written unless the
\* write fails
ProcessTrigger ==
    /\ run.pc = "dispatch"
    /\ run.triggers # <<>>
    /\ LET id == Head(run.triggers)
       IN  /\ \E lookup_ok \in BOOLEAN :
                 lookup_ok => id \notin db_processed
           /\ \E outcome \in {"not_analyzed", "reply_failed", "posted"},
                 marked \in BOOLEAN :
                 /\ handled' =
                      [handled EXCEPT
                         ![id].handed = @ + 1,
                         ![id].replies = IF outcome = "posted"
                                         THEN @ + 1 ELSE @]
                 /\ db_processed' =
                      IF outcome = "posted" /\ marked
                      THEN db_processed \cup {id} ELSE db_processed
    /\ run' = [run EXCEPT !.triggers = Tail(@)]
    /\ UNCHANGED processed_tweets
    /\ UNCHANGED trustVars
    /\ RunFrame

\* time.sleep(self.config.POLLING_INTERVAL) and the next iteration
Sleep ==
    /\ run.pc = "dispatch"
    /\ run.triggers = <<>>
    /\ now' = Min2(now + DefaultPollingInterval, MaxRunClock)
    /\ run' = [run EXCEPT !.pc = "poll"]
    /\ UNCHANGED <<config, trusted_accounts, last_update, cache_file,
                   remote_list, fetched_text, update_result, update_call,
                   trust_call, trust_score>>
    /\ UNCHANGED <<processed_tweets, db_processed, handled>>
    /\ RunFrame

\* the steps of run()
NextRun ==
    \/ StartUpRefresh
    \/ CheckForTriggers
    \/ SkipProcessedTrigger
    \/ ProcessTrigger
    \/ Sleep

SpecRun == InitRun /\ [][NextRun]_vars

\* the loop keeps running: a step of run() that can be taken is taken
SpecRunLive == SpecRun /\ WF_vars(NextRun)

(***************************************************************************)
(* Properties of the risk score                                            *)
(***************************************************************************)
RiskScored == risk_score # NoScore

\* C1: every value returned by _calculate_risk_score lies in [0, 100], and
\* when the computation fails internally (an entry it reads is missing) the
\* returned value is exactly 50.0.
C1_RiskScoreBounded ==
    RiskScored =>
        /\ 0 <= risk_score.tenths /\ risk_score.tenths <= 1000
        /\ ~HasRatio(analysis) =>
              (risk_score.tenths = 500 /\ risk_score.is_float)

\* a failed computation has returned 50.0
C1_Witness ==
    RiskScored /\ ~HasRatio(analysis) /\ risk_score.tenths = 500

\* the sum of C5, written from the claim: the activity term is keyed on the
\* posting frequency tag
C5_ClaimedSum(a) ==
      (IF a.account_age.is_new THEN 2500 ELSE 0)
    + (IF a.follower_following_ratio.is_suspicious THEN 2000 ELSE 0)
    + (IF a.bio_analysis.risk_level = "high" THEN 2000 ELSE 0)
    + (IF a.bio_analysis.risk_level = "medium" THEN 1000 ELSE 0)
    + 15 * a.content_analysis.suspicious_content_ratio
    + (IF a.engagement_analysis.pattern = "minimal_engagement" THEN 1000 ELSE 0)
    - (IF a.engagement_analysis.pattern = "high_engagement" THEN 500 ELSE 0)
    + (IF a.activity_patterns.posting_frequency \notin {"moderate", "high"}
       THEN 1000 ELSE 0)
    - (IF a.verification_status THEN 1500 ELSE 0)

C5_Clamped(a) ==
    IF C5_ClaimedSum(a) < 0 THEN 0
    ELSE IF C5_ClaimedSum(a) > 10000 THEN 10000 ELSE C5_ClaimedSum(a)

\* C5: when no internal failure occurs the returned score is the claimed
\* weighted sum, clamped to [0, 100] and rounded to one decimal: it is a
\* whole number of tenths at most 0.05 away from the clamped sum.
C5_RiskScoreFormula ==
    (RiskScored /\ HasRatio(analysis)) =>
        /\ 10 * risk_score.tenths - C5_Clamped(analysis) <= 5
        /\ C5_Clamped(analysis) - 10 * risk_score.tenths <= 5

\* a score with a fractional content term, a negative engagement term and
\* the verified deduction has been computed
C5_Witness ==
    /\ RiskScored /\ HasRatio(analysis)
    /\ analysis.content_analysis.suspicious_content_ratio = 50
    /\ ~analysis.follower_following_ratio.is_suspicious
    /\ analysis.bio_analysis.risk_level = "low"
    /\ analysis.engagement_analysis.pattern = "high_engagement"
    /\ analysis.activity_patterns.posting_frequency = "very_high"
    /\ analysis.verification_status
    /\ analysis.account_age.is_new
    /\ risk_score.tenths = 225

\* C6: of two analyses that differ only in suspicious_content_ratio the one
\* with the larger ratio has a score that is not smaller, and of two that
\* differ only in the verified flag the verified one has a score that is
\* not larger.
C6_Monotone ==
    (RiskScored /\ risk_prev # None) =>
        LET p == risk_prev[1] IN
        /\ (p.field = "suspicious_content_ratio" /\ HasRatio(p.analysis)) =>
              IF p.analysis.content_analysis.suspicious_content_ratio
                   < analysis.content_analysis.suspicious_content_ratio
              THEN p.risk_score.tenths <= risk_score.tenths
              ELSE p.risk_score.tenths >= risk_score.tenths
        /\ p.field = "verification_status" =>
              IF analysis.verification_status
              THEN risk_score.tenths <= p.risk_score.tenths
              ELSE p.risk_score.tenths <= risk_score.tenths

\* two analyses that differ in the verified flag were scored and the
\* verified one came out strictly lower
C6_Witness ==
    /\ RiskScored /\ risk_prev # None
    /\ risk_prev[1].field = "verification_status"
    /\ analysis.verification_status
    /\ HasRatio(analysis)
    /\ risk_score.tenths < risk_prev[1].risk_score.tenths

(***************************************************************************)
(* Properties of the trust decision                                        *)
(***************************************************************************)
TrustChecked == trust_score # NoTrust

\* the call obtained the account's user info
UserInfoObtained == TrustChecked /\ trust_call.user_info # None

\* two characters equal up to letter case
C7_SameLetter(x, y) == x = y \/ {x, y} = {"a", "A"}

\* a line of the fetched list names the handle u: blanks around it and
\* leading '@'s aside, it has the letters of u in any case
C7_Names(line, u) ==
    LET entry == LStrip(Strip(line), "@")
    IN  /\ Strip(line) # <<>>
        /\ Strip(line)[1] # "#"
        /\ Len(entry) = Len(u)
        /\ \A i \in 1..Len(u) : C7_SameLetter(entry[i], u[i])

\* the account is on the list the manager holds: its lower-cased username
\* is in the set, or a line of the installed list names it
C7_Listed(u) ==
    \/ Lower(u) \in trust_call.accounts
    \/ /\ fetched_text # None
       /\ \E line \in Range(Split(fetched_text[1], "\n")) : C7_Names(line, u)

\* C7: whenever the analysed account's username, lower-cased, is in the
\* trusted set, the decision is directly_trusted with is_trusted true and
\* no vouching accounts, whatever the case of the username and whatever
\* case or leading '@' its entry had in the fetched list.
C7_DirectlyTrusted ==
    (UserInfoObtained /\ C7_Listed(trust_call.user_info[1])) =>
        /\ trust_score.trust_level = "directly_trusted"
        /\ trust_score.is_trusted
        /\ trust_score.trusted_followers = <<>>

\* the list held the entry "@A" and the account "A" was found on it
C7_Witness ==
    /\ UserInfoObtained
    /\ trust_call.user_info = Some(<<"A">>)
    /\ fetched_text = Some(<<"@", "A">>)
    /\ trust_score.trust_level = "directly_trusted"

\* the call classified an account that is not in the trusted set
C8_Unlisted ==
    UserInfoObtained /\ Lower(trust_call.user_info[1]) \notin trust_call.accounts

\* C8: for an account not in the trusted set with trusted-follower count c,
\* is_trusted holds exactly when c >= MIN_TRUSTED_FOLLOWERS; 0 < c < MIN
\* gives partially_vouched, untrusted; c = 0 gives not_vouched, untrusted;
\* and directly_trusted or network_backed implies is_trusted.
C8_ThresholdClaim ==
    C8_Unlisted =>
        LET c == trust_score.trusted_followers_count
            m == config.MIN_TRUSTED_FOLLOWERS
        IN  /\ trust_score.is_trusted <=> c >= m
            /\ (0 < c /\ c < m) =>
                 (trust_score.trust_level = "partially_vouched"
                    /\ ~trust_score.is_trusted)
            /\ c = 0 =>
                 (trust_score.trust_level = "not_vouched"
                    /\ ~trust_score.is_trusted)
            /\ trust_score.trust_level \in {"directly_trusted", "network_backed"}
                 => trust_score.is_trusted

TrustLevels ==
    {"directly_trusted", "network_backed", "partially_vouched", "not_vouched",
     "unknown"}

\* C9: every decision carries one of the five trust levels, and an unlisted
\* account whose trusted-follower count reaches MIN_TRUSTED_FOLLOWERS is
\* labelled network_backed.
C9_TrustLevelClaim ==
    TrustChecked =>
        /\ trust_score.trust_level \in TrustLevels
        /\ (C8_Unlisted /\ trust_score.trusted_followers_count
                             >= config.MIN_TRUSTED_FOLLOWERS)
             => trust_score.trust_level = "network_backed"

\* the call could not construct its monitor or got no user info
C10_CallFailed ==
    TrustChecked /\ (~trust_call.monitor_ok \/ trust_call.user_info = None)

\* C10: when the user info cannot be obtained the call still returns: the
\* decision is unknown, untrusted, with no vouching accounts, count 0 and
\* the fixed explanation, and the trusted set is what it was before.
C10_DefaultOnFailure ==
    C10_CallFailed =>
        /\ trust_score.trust_level = "unknown"
        /\ ~trust_score.is_trusted
        /\ trust_score.trusted_followers = <<>>
        /\ trust_score.trusted_followers_count = 0
        /\ trust_score.explanation.text = "Unable to verify trust status"
        /\ trusted_accounts = trust_call.accounts

\* a call that got no user info has returned while the manager held a
\* non-empty trusted set
C10_Witness ==
    /\ C10_CallFailed
    /\ trust_call.monitor_ok
    /\ trusted_accounts # {}
    /\ trust_score.trust_level = "unknown"

(***************************************************************************)
(* Properties of the report                                                *)
(***************************************************************************)
ReportReturned == report.outcome = "returned"

\* C2: the string returned by generate_report is non-empty and at most 280
\* characters long on every path, for a handle of any length.
C2_LengthClaim ==
    ReportReturned =>
        (Len(report.text) >= 1 /\ Len(report.text) <= 280)

\* a step of composition fails: the analysis cannot be read, or a section
\* generator yields no string so that the join fails
C3_CompositionFails ==
    \/ report_call.analysis = None
    \/ _generate_trust_status(report_call.trust_score) = None

\* C3: generate_report never raises; whenever a step of composition fails
\* the call still returns, and what it returns is the fixed generic error
\* report naming the account's handle.
C3_NeverRaisesClaim ==
    report.outcome # "none" =>
        /\ report.outcome = "returned"
        /\ (C3_CompositionFails /\ report_call.analysis # None) =>
              report.text = TextErrorPrefix
                              \o report_call.analysis[1].username
                              \o TextErrorSuffix

\* the risk label of an analysis, by the range of its score
C4_RiskLabel(a) ==
    IF a.risk_score.tenths < 200 THEN TextLowRisk
    ELSE IF a.risk_score.tenths < 400 THEN TextModerateRisk
    ELSE IF a.risk_score.tenths < 700 THEN TextHighRisk
    ELSE TextVeryHighRisk

\* a text up to its first colon, the whole text if it has none
C4_UpToColon(t) ==
    IF \E i \in 1..Len(t) : t[i] = ":"
    THEN SubSeq(t, 1, (CHOOSE i \in 1..Len(t) :
                         t[i] = ":" /\ \A j \in 1..(i - 1) : t[j] # ":") - 1)
    ELSE t

\* the three forms of the cascade for an analysis a and a trust-status
\* text: the full report, the essential subset, the ultra-compact form
C4_Full(a, trust) ==
    Join(<<TextHeader \o a.username, <<>>, trust,
           _generate_risk_assessment(a), _generate_key_metrics(a),
           _generate_detailed_analysis(a), <<>>,
           TextFooterNotice, TextFooterTags>>, "\n")

C4_Essential(a, trust) ==
    Join(<<TextHeader \o a.username, trust, _generate_risk_assessment(a),
           _generate_key_metrics(a), TextShortFooter>>, "\n")

C4_Compact(a, trust) ==
    Join(<<TextCompactPrefix \o a.username, C4_UpToColon(trust),
           C4_RiskLabel(a), TextShortFooter>>, "\n")

\* C4: a full report of at most 280 characters is returned unchanged; a
\* longer one is replaced by the essential subset whenever that subset is
\* at most 280 characters; only when the essential subset is longer too is
\* the ultra-compact form used, cut to its first 280 characters.
C4_Cascade ==
    (ReportReturned /\ report.path # "error") =>
        LET a == report_call.analysis[1]
            trust == _generate_trust_status(report_call.trust_score)[1]
            compact == C4_Compact(a, trust)
        IN  IF Len(C4_Full(a, trust)) <= 280
            THEN report.text = C4_Full(a, trust)
            ELSE IF Len(C4_Essential(a, trust)) <= 280
            THEN report.text = C4_Essential(a, trust)
            ELSE /\ Len(report.text) <= 280
                 /\ report.text =
                      SubSeq(compact, 1, IF Len(compact) < 280
                                         THEN Len(compact) ELSE 280)

\* an ultra-compact form longer than 280 characters was cut to 280
C4_Witness ==
    /\ ReportReturned
    /\ report.path = "compact"
    /\ Len(report.text) = 280
    /\ Len(C4_Compact(report_call.analysis[1],
                      _generate_trust_status(report_call.trust_score)[1])) > 280

(***************************************************************************)
(* Properties of the refresh timing                                        *)
(***************************************************************************)
\* a step that is a call of update_trusted_list
UpdateCalled == UpdateSkipped \/ UpdateFailed \/ UpdateInstalled

\* seconds since the last successful refresh; only read when there was one
SinceLastRefresh == now - last_update[1]

\* C11: a call of update_trusted_list made less than
\* TRUSTED_ACCOUNTS_UPDATE_INTERVAL seconds after the last successful
\* refresh performs no fetch, leaves the trusted set, last_update and the
\* cache file unchanged, and returns True.
C11_NoOpWhenFresh ==
    [][ ( /\ UpdateCalled
          /\ last_update # None
          /\ SinceLastRefresh < config.TRUSTED_ACCOUNTS_UPDATE_INTERVAL )
        => ( /\ ~update_call'.fetched
             /\ update_result' = "True"
             /\ UNCHANGED <<trusted_accounts, last_update, cache_file,
                            fetched_text>> ) ]_vars

\* a call was made after a refresh and within the interval, while the URL
\* served a list other than the installed one
C11_Witness ==
    /\ last_update # None
    /\ update_call.at > last_update[1]
    /\ update_call.at - last_update[1] < config.TRUSTED_ACCOUNTS_UPDATE_INTERVAL
    /\ now = update_call.at
    /\ ~update_call.fetched
    /\ update_result = "True"
    /\ Strip(remote_list) # <<>>
    /\ ParseTrustedList(Strip(remote_list)) # trusted_accounts

\* C12: a call of update_trusted_list made when at least
\* TRUSTED_ACCOUNTS_UPDATE_INTERVAL seconds have elapsed since the last
\* successful refresh, whatever the elapsed time and the interval, is not
\* skipped: it fetches the list and, when that succeeds, the trusted set
\* becomes the fetched one.
C12_RefreshWhenDue ==
    [][ ( /\ UpdateCalled
          /\ last_update # None
          /\ SinceLastRefresh >= config.TRUSTED_ACCOUNTS_UPDATE_INTERVAL )
        => ( /\ update_call'.fetched
             /\ update_result' = "True" =>
                  trusted_accounts' = ParseTrustedList(Strip(remote_list)) ) ]_vars

(***************************************************************************)
(* Properties of a refresh beside classification calls                     *)
(***************************************************************************)
\* the answer a classification call gives when self.trusted_accounts is the
\* set v from its first statement to its last
C13_DecisionOn(v) ==
    IF reader.call = "is_account_trusted"
    THEN reader.trusted = (reader.username \in v)
    ELSE trust_score =
           check_trust_score(TRUE, Some(reader.username), v, config)

\* C13: when update_trusted_list runs beside check_trust_score or
\* is_account_trusted, every set a classification call reads is a complete
\* version of the trusted set, the one before the refresh or the one after
\* it, and the call's decision is the decision for one such version.
C13_OneCompleteVersion ==
    reader.pc = "done" =>
        /\ reader.seen \subseteq versions
        /\ \E v \in versions : C13_DecisionOn(v)

\* a call that overlapped a refresh: the set was replaced, by a different
\* one, between the call's beginning and its end
C13_Witness ==
    /\ reader.pc = "done"
    /\ reader.call = "check_trust_score"
    /\ Cardinality(versions) = 2
    /\ writer.pc # "idle"
    /\ \E v \in versions : ~C13_DecisionOn(v)

(***************************************************************************)
(* Properties of process_trigger                                           *)
(***************************************************************************)
TriggerHandled == trigger.returned # "none"

\* C14: for every trigger handed to process_trigger, one whose account
\* profile or tweets cannot be fetched included, the analysis is carried
\* out, with default features where data is missing, and a report is
\* produced for the reply, at worst the generic error report.
C14_ReportForEveryTrigger ==
    TriggerHandled =>
        /\ extracted.result # None
        /\ report.outcome = "returned"
        /\ Len(report.text) > 0

(***************************************************************************)
(* Properties of the analysis of one account                               *)
(***************************************************************************)
\* analyze_account returned an analysis
Analyzed == extracted.done /\ extracted.result # None

\* the additive rules on the features that do not come from tweets, in
\* points: +25 new, +20 suspicious ratio, +20 / +10 bio risk, +10 activity
\* not consistent, -15 verified; clamped to [0, 100]
C15_PointsWithoutTweets(a) ==
    LET points ==
            (IF a.account_age.is_new THEN 25 ELSE 0)
          + (IF a.follower_following_ratio.is_suspicious THEN 20 ELSE 0)
          + (IF a.bio_analysis.risk_level = "high" THEN 20
             ELSE IF a.bio_analysis.risk_level = "medium" THEN 10 ELSE 0)
          + (IF a.activity_patterns.consistent_activity THEN 0 ELSE 10)
          - (IF a.verification_status THEN 15 ELSE 0)
    IN  IF points < 0 THEN 0 ELSE IF points > 100 THEN 100 ELSE points

\* C15: for an account with zero tweets the analysis has engagement pattern
\* 'no_data' and posting frequency 'no_data', and its risk score is the
\* clamped sum of the additive rules on the remaining features.
C15_ScoreWithoutTweets ==
    (Analyzed /\ user_data.tweets.count = 0 /\ user_data.failing = {}) =>
        LET a == extracted.result[1]
        IN  /\ a.engagement_analysis.pattern = "no_data"
            /\ a.activity_patterns.posting_frequency = "no_data"
            /\ a.risk_score.tenths = 10 * C15_PointsWithoutTweets(a)

\* what a sub-computation can return when it does not fail, reduced to the
\* entries the scorer reads
C16_Successes(feature) ==
    CASE feature = "account_age" -> { [is_new |-> b] : b \in BOOLEAN }
      [] feature = "follower_following_ratio" ->
             { [is_suspicious |-> b] : b \in BOOLEAN }
      [] feature = "bio_analysis" ->
             { [risk_level |-> l] : l \in {"low", "medium", "high"} }
      [] feature = "engagement_analysis" ->
             { [pattern |-> e] : e \in {"no_data", "high_engagement",
                                        "moderate_engagement",
                                        "low_engagement",
                                        "minimal_engagement"} }
      [] feature = "content_analysis" -> ContentAnalyses
      [] feature = "activity_patterns" ->
             { [consistent_activity |-> b] : b \in BOOLEAN }

\* the feature holds its fallback and the score is at least the score with
\* any successful result in its place, both rounded the same way
C16_Conservative(feature) ==
    LET a == extracted.result[1]
        features == [x \in DOMAIN a \ {"risk_score"} |-> a[x]]
    IN  \E tie \in {0, 1} :
           /\ a.risk_score = _calculate_risk_score(features, tie)
           /\ \A r \in C16_Successes(feature) :
                 a.risk_score.tenths >=
                   _calculate_risk_score([features EXCEPT ![feature] = r],
                                         tie).tenths

\* C16: when one feature sub-computation fails and its fallback value is
\* substituted, the risk score is not lower than the score any successful
\* result of that sub-computation would have given, the other features
\* being the same.
C16_FallbacksConservative ==
    Analyzed =>
        \A feature \in user_data.failing : C16_Conservative(feature)

(***************************************************************************)
(* Properties of the trust status line                                     *)
(***************************************************************************)
\* the decisions check_trust_score builds: the default, a direct hit, and
\* the classification of a list of trusted followers
C17_Decisions ==
    { _default_trust_score, DirectlyTrusted(<<"a">>) }
      \cup { ClassifyFollowers(Repeat(<<"a">>, n), m) :
               n \in 0..MaxTrustedFollowers, m \in 0..MaxMinTrustedFollowers }

\* C17: for each trust level check_trust_score can return,
\* _generate_trust_status returns a text, and the texts of two decisions
\* with different trust levels are different.
C17_DistinctStatusTexts ==
    (TriggerHandled /\ trust_score # NoTrust) =>
        /\ _generate_trust_status(Some(trust_score)) # None
        /\ \A other \in C17_Decisions :
              other.trust_level # trust_score.trust_level =>
                 _generate_trust_status(Some(other))
                   # _generate_trust_status(Some(trust_score))

(***************************************************************************)
(* Properties of the follower ratio and of the bio                         *)
(***************************************************************************)
\* the profile analysed
C18_Profile == user_data.user_info[1]

\* _calculate_follower_ratio returned from its try branch
C18_RatioComputed ==
    Analyzed /\ "follower_following_ratio" \notin user_data.failing

\* C18: the ratio is followers / following (to the hundredth) when
\* following > 0 and followers when following = 0; is_suspicious is true
\* exactly when the ratio exceeds SUSPICIOUS_FOLLOWER_RATIO or followers >
\* 1000 with following < 10.  So 5000 followers and 0 following give ratio
\* 5000 and is_suspicious, and a ratio equal to the threshold with at most
\* 1000 followers is not suspicious.
C18_FollowerRatio ==
    C18_RatioComputed =>
        LET followers == C18_Profile.followers_count
            following == C18_Profile.following_count
            r == extracted.result[1].follower_following_ratio
            exceeds == IF following > 0
                       THEN 10 * followers
                              > config.SUSPICIOUS_FOLLOWER_RATIO * following
                       ELSE 10 * followers > config.SUSPICIOUS_FOLLOWER_RATIO
            equal == IF following > 0
                     THEN 10 * followers
                            = config.SUSPICIOUS_FOLLOWER_RATIO * following
                     ELSE 10 * followers = config.SUSPICIOUS_FOLLOWER_RATIO
        IN  /\ following = 0 => r.ratio = 100 * followers
            /\ following > 0 =>
                  /\ 2 * (r.ratio * following - 100 * followers) <= following
                  /\ 2 * (100 * followers - r.ratio * following) <= following
            /\ r.is_suspicious
                 <=> (exceeds \/ (followers > 1000 /\ following < 10))
            /\ (followers = 5000 /\ following = 0) =>
                  (r.ratio = 500000 /\ r.is_suspicious)
            /\ (equal /\ followers <= 1000) => ~r.is_suspicious

\* a ratio of exactly 10.0 with 1000 followers was rated not suspicious
C18_Witness ==
    /\ C18_RatioComputed
    /\ C18_Profile.followers_count = 1000
    /\ C18_Profile.following_count = 100
    /\ extracted.result[1].follower_following_ratio.ratio = 1000
    /\ ~extracted.result[1].follower_following_ratio.is_suspicious

\* the number of keywords of the list that occur in the lower-cased bio
C19_Matches(keywords, bio) ==
    Cardinality({ i \in 1..Len(keywords) : Contains(Lower(bio), keywords[i]) })

\* _analyze_bio returned from its try branch
C19_BioAnalyzed == Analyzed /\ "bio_analysis" \notin user_data.failing

\* C19: a non-empty bio is 'high' exactly when more than 2 suspicious
\* keywords match, 'medium' exactly when 1 or 2 match, 'low' when none
\* match; an empty bio is 'medium' with has_bio false; a bio with 3
\* suspicious and 0 positive keywords adds 20 points to the risk sum.
C19_BioClassification ==
    C19_BioAnalyzed =>
        LET bio == C18_Profile.description
            a == extracted.result[1]
            b == a.bio_analysis
            n == C19_Matches(suspicious_keywords, bio)
            positive == C19_Matches(positive_keywords, bio)
        IN  /\ bio = <<>> => (b.risk_level = "medium" /\ ~b.has_bio)
            /\ bio # <<>> =>
                  /\ b.has_bio
                  /\ b.risk_level = "high" <=> n > 2
                  /\ b.risk_level = "medium" <=> n \in {1, 2}
                  /\ b.risk_level = "low" <=> n = 0
            /\ (n = 3 /\ positive = 0) =>
                  /\ b.risk_level = "high"
                  /\ BioFactor(a) = 2000
                  /\ "suspicious_content_ratio" \in DOMAIN a.content_analysis =>
                        RiskSum(a)
                          - RiskSum([a EXCEPT !.bio_analysis.risk_level = "low"])
                          = 2000

\* a bio with three suspicious keywords and no positive one was rated high
C19_Witness ==
    /\ C19_BioAnalyzed
    /\ C19_Matches(suspicious_keywords, C18_Profile.description) = 3
    /\ C19_Matches(positive_keywords, C18_Profile.description) = 0
    /\ extracted.result[1].bio_analysis.risk_level = "high"

(***************************************************************************)
(* Reachability of the network-backed path                                 *)
(***************************************************************************)
\* C20: check_trust_score never returns is_trusted = true for an account
\* whose username is not in the trusted set, whatever MIN_TRUSTED_FOLLOWERS
\* the configuration holds; its only outcomes are directly_trusted,
\* not_vouched and unknown.
C20_NetworkPathUnreachable ==
    TrustChecked =>
        /\ trust_score.is_trusted =>
              /\ UserInfoObtained
              /\ Lower(trust_call.user_info[1]) \in trust_call.accounts
        /\ trust_score.trust_level
             \in {"directly_trusted", "not_vouched", "unknown"}

(***************************************************************************)
(* Properties of the ultra-compact report                                  *)
(***************************************************************************)
\* C21: when the essential subset exceeds 280 characters, the ultra-compact
\* form consists of exactly four lines for every trust-status text: the
\* handle line, the trust-status text up to its first colon, the risk line
\* up to its first '(', and the short footer.
C21_FourLineCompact ==
    (ReportReturned /\ report.path = "compact") =>
        LET a == report_call.analysis[1]
            trust == _generate_trust_status(report_call.trust_score)[1]
            lines == Split(report.text, "\n")
        IN  /\ Len(lines) = 4
            /\ lines[1] = TextCompactPrefix \o a.username
            /\ lines[2] = C4_UpToColon(trust)
            /\ lines[3] = C4_RiskLabel(a)
            /\ lines[4] = TextShortFooter

(***************************************************************************)
(* Properties of the database writes of process_trigger                    *)
(***************************************************************************)
\* C27: the trigger tweet is recorded as processed, and its analysis
\* saved, only after the reply was posted: when the analysis or the reply
\* fails neither write happens, so a stored row means a posted reply.
C27_WritesAfterReply ==
    TriggerHandled =>
        /\ (trigger.saved \/ trigger.marked) =>
              (trigger.reply # None /\ trigger.returned = "True")
        /\ (extracted.result = None \/ trigger.reply = None) =>
              (~trigger.saved /\ ~trigger.marked /\ trigger.returned = "False")

\* a reply was posted and both rows were written
C27_Witness ==
    /\ TriggerHandled
    /\ trigger.reply # None
    /\ trigger.saved
    /\ trigger.marked

C23_CacheWritten ==
    /\ last_update # None
    /\ cache_file = Some(CacheContents(trusted_accounts))

\* C23: a manager constructed after a successful refresh wrote the cache
\* file starts with a trusted set equal to the set that refresh installed,
\* the empty set included.
C23_CacheRoundTrip ==
    [][(Restart /\ C23_CacheWritten) =>
           trusted_accounts' = trusted_accounts]_vars

(***************************************************************************)
(* Properties of the length of the full report                            *)
(***************************************************************************)
\* generate_report was called with an analysis and with a decision that
\* check_trust_score builds
C28_Composed ==
    /\ ReportReturned
    /\ report_call.analysis # None
    /\ report_call.trust_score # None
    /\ report_call.trust_score[1].trust_level # "network_backed"

\* C28: for every decision of check_trust_score and every analysis the
\* full joined report is longer than 280 characters, so generate_report
\* never returns the full form and the detailed-analysis line never
\* appears in a returned report.
C28_FullReportTooLong ==
    C28_Composed =>
        LET a == report_call.analysis[1]
            trust == _generate_trust_status(report_call.trust_score)
        IN  /\ report.path # "full"
            /\ trust # None => Len(C4_Full(a, trust[1])) > 280
            /\ ~Contains(report.text, _generate_detailed_analysis(a))

\* the shortest full report: a one-letter handle, an integer score, the
\* shortest metrics and details; the essential subset was returned
C28_Witness ==
    /\ C28_Composed
    /\ Len(report_call.analysis[1].username) = 1
    /\ report_call.analysis[1].risk_score.tenths = 0
    /\ report_call.analysis[1].account_age.days = 0
    /\ report_call.analysis[1].bio_analysis
         = [has_bio |-> TRUE, risk_level |-> "medium"]
    /\ ~report_call.analysis[1].verification_status
    /\ report_call.trust_score[1].trust_level = "partially_vouched"
    /\ report.path = "essential"

(***************************************************************************)
(* Properties of the dashboard                                             *)
(***************************************************************************)
\* C29: under any interleaving of concurrent /api/start requests the check
\* for a running bot and the launch behave atomically, so at most one bot
\* process is running at a time.
C29_AtMostOneBot == bot_processes <= 1

(***************************************************************************)
(* Properties of retry_on_failure                                          *)
(***************************************************************************)
\* C24: func is called at most max_retries times; the first value func
\* returns is returned with no further call; after the k-th failed attempt
\* that is not the last the wait is delay * 2^k; and the call ends by
\* returning a value func returned or by raising the exception of func's
\* final attempt.
C24_RetryContract ==
    LET n == Len(retry.outcomes)
    IN  /\ n <= retry.max_retries
        /\ \A i \in 1..(n - 1) : retry.outcomes[i] \in FuncErrors
        /\ \A k \in 1..Len(retry.waits) :
              retry.waits[k] = retry.delay * (2 ^ (k - 1))
        /\ retry.pc = "done" =>
              \/ /\ retry.result.kind = "returned"
                 /\ n > 0
                 /\ retry.outcomes[n] \in FuncValues
                 /\ retry.result.value = retry.outcomes[n]
                 /\ Len(retry.waits) = n - 1
              \/ /\ retry.result.kind = "raised"
                 /\ n = retry.max_retries
                 /\ n > 0
                 /\ retry.result.value = retry.outcomes[n]
                 /\ Len(retry.waits) = n - 1

(***************************************************************************)
(* Properties of ProcessedTweetsTracker                                    *)
(***************************************************************************)
\* the n ids marked last
C25_MostRecent(n) ==
    { tracker.marked[i] :
        i \in { j \in 1..Len(tracker.marked) : j > Len(tracker.marked) - n } }

\* C25: whenever _cleanup shrinks the set it retains the max_entries // 2
\* most recently marked tweet ids, so is_processed returns true for the id
\* that was just marked.
C25_KeepsMostRecent ==
    /\ tracker.marked # <<>> =>
          tracker.marked[Len(tracker.marked)] \in tracker.processed
    /\ tracker.shrunk =>
          tracker.processed = C25_MostRecent(tracker.max_entries \div 2)

(***************************************************************************)
(* Properties of the main loop                                             *)
(***************************************************************************)
\* C22: while the main loop keeps running, once
\* TRUSTED_ACCOUNTS_UPDATE_INTERVAL has elapsed since the last refresh a
\* later loop iteration eventually calls update_trusted_list (the call of
\* start-up is made at instant 0).
C22_RefreshKeepsHappening ==
    (/\ last_update # None
     /\ now - last_update[1] >= config.TRUSTED_ACCOUNTS_UPDATE_INTERVAL)
      ~> (update_call.at > 0)

\* C26: within one bot process each trigger tweet id is returned by
\* check_for_triggers, and handed to process_trigger, at most once,
\* whether or not its processing succeeded; at most one reply is posted
\* per trigger tweet.
C26_AtMostOnce ==
    \A id \in TweetIds :
        /\ handled[id].returned <= 1
        /\ handled[id].handed <= handled[id].returned
        /\ handled[id].replies <= handled[id].handed
        /\ handled[id].returned = 1 <=> id \in processed_tweets

\* a trigger whose processing failed came up in a later search and was
\* not returned again
C26_Witness ==
    \E id \in TweetIds :
        /\ handled[id].handed = 1
        /\ handled[id].replies = 0
        /\ handled[id].seen_again
        /\ id \notin db_processed
        /\ run.pc = "dispatch"
        /\ run.triggers = <<>>

====
